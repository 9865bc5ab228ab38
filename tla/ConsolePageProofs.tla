-------------------------- MODULE ConsolePageProofs --------------------------
(***************************************************************************)
(* Theorems about what the pages show: every page is as fresh as           *)
(* PageIsFresh says, the tables answer their filter, and the rows and      *)
(* statuses that pages hold are of their types, for any number of slots,   *)
(* rows on a page and notes.                                               *)
(***************************************************************************)
EXTENDS ConsoleProofs, FiniteSetTheorems

-----------------------------------------------------------------------------
(* What is open is fresh.  While all goes smoothly there is at most one     *)
(* call: either no slot is taken, or what the page knows follows from what  *)
(* that one call carries and has been answered.                            *)
NoneIn(cs) == \A t \in Slot : cs[t] = Free
OnlyIn(cs, c) ==
  /\ \E t \in Slot : cs[t] # Free
  /\ \A t \in Slot : cs[t] # Free => cs[t] = c

(* One lemma for each way in which a handler calls and ends, as long as all *)
(* goes smoothly.                                                          *)
LEMMA SmoothSend ==
  ASSUME ConsoleInv, smooth', NEW op, NEW arg, NEW flags, Send(op, arg, flags)
  PROVE  /\ smooth /\ NoneIn(calls) /\ OnlyIn(calls', Call(op, arg, flags))
         /\ busy' = busy \cup flags
<1>1. PICK s \in Slot : ~InFlight(s) /\ calls' = [calls EXCEPT ![s] = Call(op, arg, flags)]
  BY DEF Send
<1>2. calls'[s] = Call(op, arg, flags) /\ \A t \in Slot \ {s} : calls'[t] = calls[t]
  BY <1>1, NewCall DEF ConsoleInv, CallsInv
<1>3. smooth /\ NoneIn(calls) /\ busy' = busy \cup flags
  BY DEF Send, Quiet, InFlight, NoneIn
<1> QED BY <1>2, <1>3, Fields DEF NoneIn, OnlyIn

LEMMA SmoothSendShared ==
  ASSUME ConsoleInv, smooth', NEW op, NEW arg, NEW flag, NEW shared,
         SendShared(op, arg, flag, shared)
  PROVE  smooth /\ NoneIn(calls) /\ OnlyIn(calls', Call(op, arg, shared))
<1>1. PICK s \in Slot : ~InFlight(s) /\ calls' = [calls EXCEPT ![s] = Call(op, arg, shared)]
  BY DEF SendShared
<1>2. calls'[s] = Call(op, arg, shared) /\ \A t \in Slot \ {s} : calls'[t] = calls[t]
  BY <1>1, NewCall DEF ConsoleInv, CallsInv
<1>3. smooth /\ NoneIn(calls)
  BY DEF SendShared, Quiet, InFlight, NoneIn
<1> QED BY <1>2, <1>3, Fields DEF NoneIn, OnlyIn

LEMMA SmoothSendAlso ==
  ASSUME ConsoleInv, smooth', NEW op, NEW arg, NEW flags, SendAlso(op, arg, flags)
  PROVE  smooth /\ NoneIn(calls) /\ OnlyIn(calls', Call(op, arg, flags))
<1>1. PICK s \in Slot : ~InFlight(s) /\ calls' = [calls EXCEPT ![s] = Call(op, arg, flags)]
  BY DEF SendAlso
<1>2. calls'[s] = Call(op, arg, flags) /\ \A t \in Slot \ {s} : calls'[t] = calls[t]
  BY <1>1, NewCall DEF ConsoleInv, CallsInv
<1>3. smooth /\ NoneIn(calls)
  BY DEF SendAlso, Quiet, InFlight, NoneIn
<1> QED BY <1>2, <1>3, Fields DEF NoneIn, OnlyIn

(* The next call of the handler whose call was the only one. *)
LEMMA SmoothNext ==
  ASSUME ConsoleInv, smooth, NEW s \in Slot, InFlight(s), NEW op, NEW arg, NEW flags,
         calls' = [calls EXCEPT ![s] = Call(op, arg, flags)]
  PROVE  OnlyIn(calls', Call(op, arg, flags))
<1>1. calls'[s] = Call(op, arg, flags) /\ \A t \in Slot \ {s} : calls'[t] = calls[t]
  BY NewCall DEF ConsoleInv, CallsInv
<1>2. \A t \in Slot \ {s} : calls[t] = Free
  BY AloneIsFree
<1> QED BY <1>1, <1>2, Fields DEF OnlyIn

LEMMA SmoothChain ==
  ASSUME ConsoleInv, smooth', NEW s \in Slot, InFlight(s), NEW op, NEW arg, NEW flags,
         Chain(s, op, arg, flags)
  PROVE  smooth /\ OnlyIn(calls', Call(op, arg, calls[s].flags \cup flags))
BY SmoothNext DEF Chain

LEMMA SmoothChainAlso ==
  ASSUME ConsoleInv, smooth', NEW s \in Slot, InFlight(s), NEW op, NEW arg, NEW flags,
         ChainAlso(s, op, arg, flags)
  PROVE  smooth /\ OnlyIn(calls', Call(op, arg, calls[s].flags \cup flags))
BY SmoothNext DEF ChainAlso

LEMMA SmoothEndThen ==
  ASSUME ConsoleInv, smooth', NEW s \in Slot, InFlight(s), NEW op, NEW arg, NEW flags,
         EndThen(s, op, arg, flags)
  PROVE  smooth /\ OnlyIn(calls', Call(op, arg, flags))
BY SmoothNext DEF EndThen

LEMMA SmoothReplace ==
  ASSUME ConsoleInv, smooth', NEW s \in Slot, InFlight(s), NEW op, NEW arg,
         Replace(s, op, arg)
  PROVE  smooth /\ OnlyIn(calls', Call(op, arg, calls[s].flags))
BY SmoothNext DEF Replace

LEMMA SmoothEnd ==
  ASSUME ConsoleInv, smooth', NEW s \in Slot, InFlight(s), End(s)
  PROVE  smooth /\ NoneIn(calls')
<1>1. smooth
  BY DEF End
<1>2. calls'[s] = Free /\ \A t \in Slot \ {s} : calls'[t] = calls[t]
  BY EndedCall DEF End, ConsoleInv
<1> QED BY <1>1, <1>2, AloneIsFree DEF NoneIn

(* The only call is served: it is what it was, with an answer. *)
LEMMA SmoothServe ==
  ASSUME ConsoleInv, smooth', NEW s \in Slot, NEW replies, Serve(s, replies)
  PROVE  /\ smooth /\ InFlight(s) /\ calls[s].ans = Pending
         /\ ui' = ui /\ busy' = busy /\ page' = page
         /\ OnlyIn(calls', calls'[s]) /\ calls'[s].op = calls[s].op
         /\ calls'[s].arg = calls[s].arg /\ calls'[s].flags = calls[s].flags
         /\ \E r \in replies : srv' = r.rows /\ calls'[s].ans = r.ans
<1>1. /\ smooth /\ InFlight(s) /\ calls[s].ans = Pending
      /\ ui' = ui /\ busy' = busy /\ page' = page
  BY DEF Serve
<1>2. PICK r \in replies : srv' = r.rows /\ calls' = [calls EXCEPT ![s].ans = r.ans]
  BY DEF Serve
<1>3. calls' = [t \in Slot |-> IF t = s THEN [calls[s] EXCEPT !.ans = r.ans] ELSE calls[t]]
  BY <1>2 DEF ConsoleInv, CallsInv, CallsOK
<1>4. /\ calls'[s] = [calls[s] EXCEPT !.ans = r.ans]
      /\ \A t \in Slot \ {s} : calls'[t] = Free
  BY <1>1, <1>3, AloneIsFree
<1>5. /\ calls'[s].op = calls[s].op /\ calls'[s].arg = calls[s].arg
      /\ calls'[s].ans = r.ans /\ calls'[s].flags = calls[s].flags
  BY <1>1, <1>2, AnsweredCall DEF ConsoleInv
<1>6. calls'[s] # Free
  <2>1. DOMAIN calls[s] = CallFields
    BY <1>1 DEF ConsoleInv, CallsInv, CallsOK, InFlight
  <2>2. "arg" \in DOMAIN calls'[s]
    BY <1>4, <2>1 DEF CallFields
  <2> QED BY <2>2 DEF Free
<1>7. OnlyIn(calls', calls'[s])
  BY <1>4, <1>6 DEF OnlyIn
<1> QED BY <1>1, <1>2, <1>4, <1>5, <1>7

(* A page as it is mounted. *)
LEMMA SmoothMounted ==
  ASSUME NEW op, NEW arg, NEW flags, Mounted(op, arg, flags)
  PROVE  OnlyIn(calls, Call(op, arg, flags)) /\ busy = flags
BY Fields DEF Mounted, OnlyIn

-----------------------------------------------------------------------------
(* The case: what is shown, or has been answered and will be, is the       *)
(* status that the backend has.                                            *)
CaseCall(c, u, r) ==
  /\ c.op \in {"getCase", "patchCase", "addNote"}
  /\ c.op = "getCase" => c.ans = Pending \/ c.ans.state = "ok"
  /\ c.op \in {"getCase", "patchCase"} /\ c.ans.state = "ok" => c.ans.data.status = r.status
  /\ c.op # "getCase" /\ ~(c.op = "patchCase" /\ c.ans.state = "ok") => u.case = r.status

CaseWith(cs, u, r) ==
  /\ "case" \in DOMAIN u /\ "status" \in DOMAIN r
  /\ NoneIn(cs) => u.case = r.status
  /\ \A s \in Slot : cs[s] # Free => CaseCall(cs[s], u, r)

CaseKnown == page = "case" /\ smooth => CaseWith(calls, ui, srv)

LEMMA CaseStarts ==
  ASSUME ConsoleInit, page = "case" => CaseInit
  PROVE  CaseKnown
<1> SUFFICES ASSUME page = "case", smooth PROVE CaseWith(calls, ui, srv)
  BY DEF CaseKnown
<1>1. CaseInit
  OBVIOUS
<1>2. OnlyIn(calls, Call("getCase", "none", {"loading"}))
  BY <1>1, SmoothMounted DEF CaseInit
<1>3. "case" \in DOMAIN ui /\ "status" \in DOMAIN srv
  BY <1>1 DEF CaseInit
<1> QED BY <1>2, <1>3, Fields DEF CaseWith, CaseCall, OnlyIn, NoneIn

LEMMA CaseStep ==
  ASSUME ConsoleInv, CaseKnown, CaseNext, page' = page
  PROVE  CaseKnown'
<1> SUFFICES ASSUME smooth' PROVE CaseWith(calls', ui', srv')
  BY DEF CaseKnown
<1>0. page = "case"
  BY DEF CaseNext
<1>1. CASE handleStatusSelect \/ CancelStatus \/ TypeNote
  <2>1. calls' = calls /\ smooth /\ srv' = srv
    BY <1>1 DEF handleStatusSelect, CancelStatus, TypeNote, NoCall
  <2>2. CaseWith(calls, ui, srv)
    BY <1>0, <2>1 DEF CaseKnown
  <2>3. "case" \in DOMAIN ui' /\ ui'.case = ui.case
    BY <1>1, <2>2 DEF handleStatusSelect, CancelStatus, TypeNote, CaseWith
  <2> QED BY <2>1, <2>2, <2>3 DEF CaseWith, CaseCall
<1>2. CASE handleStatusConfirm
  <2>1. Send("patchCase", ui.pendingStatus, {"updatingStatus"}) /\ srv' = srv
    BY <1>2 DEF handleStatusConfirm
  <2>2. /\ smooth /\ NoneIn(calls)
        /\ OnlyIn(calls', Call("patchCase", ui.pendingStatus, {"updatingStatus"}))
    BY <2>1, SmoothSend
  <2>3. CaseWith(calls, ui, srv)
    BY <1>0, <2>2 DEF CaseKnown
  <2>4. "case" \in DOMAIN ui' /\ ui'.case = ui.case
    BY <1>2, <2>3 DEF handleStatusConfirm, CaseWith
  <2> QED BY <2>1, <2>2, <2>3, <2>4, Fields DEF CaseWith, CaseCall, OnlyIn, NoneIn
<1>3. CASE handleAddNote
  <2>1. Send("addNote", "none", {"addingNote"}) /\ srv' = srv /\ ui' = ui
    BY <1>3 DEF handleAddNote
  <2>2. smooth /\ NoneIn(calls) /\ OnlyIn(calls', Call("addNote", "none", {"addingNote"}))
    BY <2>1, SmoothSend
  <2> QED BY <1>0, <2>1, <2>2, Fields DEF CaseKnown, CaseWith, CaseCall, OnlyIn, NoneIn
<1>4. CASE CaseColleague
  BY <1>4 DEF CaseColleague, Others
<1>5. ASSUME NEW s \in Slot, Lose(s) PROVE FALSE
  BY <1>5 DEF Lose
<1>6. ASSUME NEW s \in Slot, StatusConfirmed(s) \/ fetchCase(s)
      PROVE  CaseWith(calls', ui', srv')
  <2>1. InFlight(s) /\ End(s) /\ srv' = srv
    BY <1>6, AwaitsIsInFlight DEF StatusConfirmed, fetchCase
  <2>2. smooth /\ NoneIn(calls')
    BY <2>1, SmoothEnd
  <2>3. CaseWith(calls, ui, srv) /\ CaseCall(calls[s], ui, srv)
    BY <1>0, <2>1, <2>2 DEF CaseKnown, CaseWith, InFlight
  <2>4. "case" \in DOMAIN ui' /\ ui'.case = srv.status
    BY <1>6, <2>3, Fields DEF StatusConfirmed, fetchCase, Awaits, Succeeded, CaseWith, CaseCall
  <2> QED BY <2>1, <2>2, <2>3, <2>4 DEF CaseWith, NoneIn
<1>7. ASSUME NEW s \in Slot, NoteAdded(s) PROVE CaseWith(calls', ui', srv')
  <2>1. InFlight(s) /\ calls[s].op = "addNote" /\ smooth /\ srv' = srv
    BY <1>7, AwaitsIsInFlight DEF NoteAdded, Awaits, Chain, End
  <2>2. CaseWith(calls, ui, srv) /\ CaseCall(calls[s], ui, srv)
    BY <1>0, <2>1 DEF CaseKnown, CaseWith, InFlight
  <2>3. "case" \in DOMAIN ui' /\ ui'.case = srv.status
    BY <1>7, <2>1, <2>2 DEF NoteAdded, CaseWith, CaseCall
  <2>4. CASE Succeeded(s)
    <3>1. OnlyIn(calls', Call("getCase", "none", calls[s].flags \cup {"loading"}))
      BY <1>7, <2>1, <2>4, SmoothChain DEF NoteAdded
    <3> QED BY <2>1, <2>2, <2>3, <3>1, Fields DEF CaseWith, CaseCall, OnlyIn, NoneIn
  <2>5. CASE ~Succeeded(s)
    <3>1. NoneIn(calls')
      BY <1>7, <2>1, <2>5, SmoothEnd DEF NoteAdded
    <3> QED BY <2>1, <2>2, <2>3, <3>1 DEF CaseWith, NoneIn
  <2> QED BY <2>4, <2>5
<1>8. ASSUME NEW s \in Slot, Serve(s, CaseReplies(s)) PROVE CaseWith(calls', ui', srv')
  <2> DEFINE c == calls'[s]
  <2>1. /\ smooth /\ InFlight(s) /\ calls[s].ans = Pending /\ ui' = ui
        /\ OnlyIn(calls', c) /\ c.op = calls[s].op
    BY <1>8, SmoothServe
  <2>2. PICK r \in CaseReplies(s) : srv' = r.rows /\ c.ans = r.ans
    BY <1>8, SmoothServe
  <2> HIDE DEF c
  <2>3. CaseWith(calls, ui, srv) /\ CaseCall(calls[s], ui, srv)
    BY <1>0, <2>1 DEF CaseKnown, CaseWith, InFlight
  <2>4. "status" \in DOMAIN srv' /\ CaseCall(c, ui, srv')
    <3>1. CASE calls[s].op = "getCase"
      <4>1. r = Reply(srv, Ok(CaseResponse(srv)))
        BY <2>1, <2>2, <3>1 DEF CaseReplies
      <4> QED BY <2>1, <2>2, <2>3, <3>1, <4>1, AnswerFields
              DEF Reply, CaseResponse, CaseCall, CaseWith
    <3>2. CASE calls[s].op = "patchCase"
      <4>1. r \in CasePatched(calls[s].arg)
        BY <2>2, <3>2 DEF CaseReplies
      <4>2. CASE r = Reply(srv, Failed)
        BY <2>1, <2>2, <2>3, <3>2, <4>2, AnswerFields, Fields
           DEF Reply, CaseCall, CaseWith
      <4>3. CASE r # Reply(srv, Failed)
        <5>1. PICK rows \in {[srv EXCEPT !.status = calls[s].arg]} :
                r = Reply(rows, Ok(CaseResponse(rows)))
          BY <4>1, <4>3 DEF CasePatched, Refuse
        <5> QED BY <2>1, <2>2, <2>3, <3>2, <5>1, AnswerFields
                DEF Reply, CaseResponse, CaseCall, CaseWith
      <4> QED BY <4>2, <4>3
    <3>3. CASE calls[s].op = "addNote"
      <4>1. r = Reply([srv EXCEPT !.notes = @ + 1], Ok("note"))
        BY <2>2, <3>3 DEF CaseReplies
      <4>2. srv' = [srv EXCEPT !.notes = @ + 1] /\ c.ans = Ok("note")
        BY <2>2, <4>1 DEF Reply
      <4> QED BY <2>1, <2>2, <2>3, <3>3, <4>2, AnswerFields DEF CaseCall, CaseWith
    <3> QED BY <2>3, <3>1, <3>2, <3>3 DEF CaseCall
  <2> QED BY <2>1, <2>2, <2>3, <2>4 DEF CaseWith, OnlyIn, NoneIn
<1> QED BY <1>1, <1>2, <1>3, <1>4, <1>5, <1>6, <1>7, <1>8 DEF CaseNext

-----------------------------------------------------------------------------
(* What every slot holds after a step, smooth or not. *)
LEMMA EachSend ==
  ASSUME ConsoleInv, NEW op, NEW arg, NEW flags, Send(op, arg, flags)
  PROVE  \A t \in Slot : calls'[t] \in {calls[t], Call(op, arg, flags)}
BY SentCall DEF ConsoleInv

LEMMA EachNext ==
  ASSUME ConsoleInv, NEW s \in Slot, NEW op, NEW arg, NEW flags,
         Chain(s, op, arg, flags) \/ EndThen(s, op, arg, flags)
  PROVE  \A t \in Slot : \/ calls'[t] = calls[t]
                         \/ \E f : calls'[t] = Call(op, arg, f)
<1>1. PICK f : calls' = [calls EXCEPT ![s] = Call(op, arg, f)]
  BY DEF Chain, EndThen
<1> QED BY <1>1, NewCall DEF ConsoleInv, CallsInv

LEMMA EachEnd ==
  ASSUME ConsoleInv, NEW s \in Slot, End(s)
  PROVE  \A t \in Slot : calls'[t] \in {calls[t], Free}
BY EndedCall DEF End, ConsoleInv

LEMMA EachServe ==
  ASSUME ConsoleInv, NEW s \in Slot, NEW replies, Serve(s, replies)
  PROVE  /\ InFlight(s) /\ ui' = ui
         /\ \E r \in replies :
              /\ srv' = r.rows
              /\ \A t \in Slot : \/ calls'[t] = calls[t]
                                 \/ /\ t = s /\ calls'[t].op = calls[t].op
                                    /\ calls'[t].arg = calls[t].arg /\ calls'[t].ans = r.ans
<1>1. PICK r \in replies : srv' = r.rows /\ calls' = [calls EXCEPT ![s].ans = r.ans]
  BY DEF Serve
<1>2. InFlight(s) /\ ui' = ui
  BY DEF Serve
<1> QED BY <1>1, <1>2, AnsweredCall DEF ConsoleInv

LEMMA EachLose ==
  ASSUME ConsoleInv, NEW s \in Slot, Lose(s)
  PROVE  /\ InFlight(s) /\ ui' = ui /\ srv' = srv
         /\ \A t \in Slot : \/ calls'[t] = calls[t]
                            \/ /\ t = s /\ calls'[t].op = calls[t].op
                               /\ calls'[t].arg = calls[t].arg /\ calls'[t].ans = Failed
<1>1. InFlight(s) /\ ui' = ui /\ srv' = srv /\ calls' = [calls EXCEPT ![s].ans = Failed]
  BY DEF Lose
<1> QED BY <1>1, AnsweredCall DEF ConsoleInv

-----------------------------------------------------------------------------
(* The customer.  What the endpoints make of a view. *)
LEMMA KycViews ==
  ASSUME NEW v \in KycBackend!View
  PROVE  /\ \A answer : KycBackend!VerifyIdentity(v, answer) \in KycBackend!View
         /\ \A t \in {"low", "high"} :
              /\ KycBackend!ScoreRisk(v, t) \in KycBackend!View
              /\ KycBackend!ScoreRisk(v, t).nadra = v.nadra
         /\ \A kind \in KycBackend!DocKind, ocr \in BOOLEAN :
              KycBackend!UploadStored(v, kind, ocr) \in KycBackend!View
         /\ \A kind \in KycBackend!DocKind, face \in BOOLEAN :
              KycBackend!FaceMatch(v, kind, face) \in KycBackend!View
         /\ /\ KycBackend!StartEdd(v, 1) \in KycBackend!View
            /\ KycBackend!StartEdd(v, 1).nadra = v.nadra
         /\ /\ KycBackend!SubmitSourceOfFunds(v, FALSE) \in KycBackend!View
            /\ KycBackend!SubmitSourceOfFunds(v, FALSE).nadra = v.nadra
            /\ KycBackend!SubmitSourceOfFunds(v, FALSE).status = v.status
         /\ \A verdict \in {"approved", "rejected"} :
              /\ KycBackend!DecideEdd(v, verdict) \in KycBackend!View
              /\ KycBackend!DecideEdd(v, verdict).nadra = v.nadra
         /\ KycBackend!Freeze(v, 1) \in KycBackend!View
<1> USE DEF KycBackend!View
<1>1. \A answer : KycBackend!VerifyIdentity(v, answer) \in KycBackend!View
  BY DEF KycBackend!VerifyIdentity, KycBackend!KycStatus
<1>2. ASSUME NEW t \in {"low", "high"}
      PROVE  /\ KycBackend!ScoreRisk(v, t) \in KycBackend!View
             /\ KycBackend!ScoreRisk(v, t).nadra = v.nadra
  <2>1. KycBackend!StatusAfterScore(v.status, t) \in KycBackend!KycStatus
    BY DEF KycBackend!StatusAfterScore, KycBackend!KycStatus
  <2>2. t \in KycBackend!RiskTier
    BY DEF KycBackend!RiskTier
  <2> QED BY <2>1, <2>2 DEF KycBackend!ScoreRisk
<1>3. \A kind \in KycBackend!DocKind, ocr \in BOOLEAN :
        KycBackend!UploadStored(v, kind, ocr) \in KycBackend!View
  BY DEF KycBackend!UploadStored, KycBackend!KycStatus
<1>4. \A kind \in KycBackend!DocKind, face \in BOOLEAN :
        KycBackend!FaceMatch(v, kind, face) \in KycBackend!View
  BY DEF KycBackend!FaceMatch, KycBackend!KycStatus
<1>5. /\ KycBackend!StartEdd(v, 1) \in KycBackend!View
      /\ KycBackend!StartEdd(v, 1).nadra = v.nadra
  BY DEF KycBackend!StartEdd, KycBackend!KycStatus, KycBackend!CaseState
<1>6. /\ KycBackend!SubmitSourceOfFunds(v, FALSE) \in KycBackend!View
      /\ KycBackend!SubmitSourceOfFunds(v, FALSE).nadra = v.nadra
      /\ KycBackend!SubmitSourceOfFunds(v, FALSE).status = v.status
  BY DEF KycBackend!SubmitSourceOfFunds, KycBackend!Funds
<1>7. \A verdict \in {"approved", "rejected"} :
        /\ KycBackend!DecideEdd(v, verdict) \in KycBackend!View
        /\ KycBackend!DecideEdd(v, verdict).nadra = v.nadra
  BY DEF KycBackend!DecideEdd, KycBackend!KycStatus, KycBackend!CaseState
<1>8. KycBackend!Freeze(v, 1) \in KycBackend!View
  BY DEF KycBackend!Freeze, KycBackend!KycStatus, KycBackend!FreezeState
<1> QED BY <1>1, <1>2, <1>3, <1>4, <1>5, <1>6, <1>7, <1>8

LEMMA PipelineView ==
  ASSUME NEW v \in KycBackend!View, NEW answer, NEW t \in {"low", "high"}
  PROVE  KycBackend!RunKycPipeline(v, TRUE, answer, t) \in KycBackend!View
BY KycViews DEF KycBackend!RunKycPipeline

CustomerLoads == {"getCustomer", "getResults", "reload", "getEdd"}
CustomerOp == CustomerLoads \cup {"upload", "verifyNadra", "scoreRisk", "runKyc", "startEdd",
                                  "submitSof", "approve", "reject"}
KeepsNadra == {"scoreRisk", "startEdd", "submitSof", "approve", "reject"}

(* A refusal leaves the rows alone; any other answer is a projection of the *)
(* rows that the call leaves.                                              *)
LEMMA CustomerReply ==
  ASSUME srv \in KycBackend!View, NEW s \in Slot, calls[s].op \in CustomerOp,
         calls[s].op = "upload" => calls[s].arg \in KycBackend!DocKind,
         NEW r \in CustomerReplies(s)
  PROVE  /\ r.rows \in KycBackend!View
         /\ \/ r.ans = Failed /\ r.rows = srv /\ calls[s].op \notin CustomerLoads
            \/ r.ans = Ok(Answer(r.rows))
         /\ calls[s].op \in CustomerLoads => r.rows = srv
         /\ calls[s].op \in KeepsNadra => r.rows.nadra = srv.nadra
         /\ calls[s].op = "submitSof" => r.rows.status = srv.status
<1> DEFINE Fine(rows) ==
             /\ rows \in KycBackend!View
             /\ calls[s].op \in CustomerLoads => rows = srv
             /\ calls[s].op \in KeepsNadra => rows.nadra = srv.nadra
             /\ calls[s].op = "submitSof" => rows.status = srv.status
<1>a. ASSUME NEW rows, Fine(rows), r = Done(rows)
      PROVE  Fine(r.rows) /\ r.ans = Ok(Answer(r.rows))
  BY <1>a DEF Done, Reply
<1>b. ASSUME calls[s].op \notin CustomerLoads, r \in Refuse
      PROVE  Fine(r.rows) /\ r.ans = Failed /\ r.rows = srv
  BY <1>b DEF Refuse, Reply
<1> HIDE DEF Fine
<1> SUFFICES /\ Fine(r.rows)
             /\ \/ r.ans = Failed /\ r.rows = srv /\ calls[s].op \notin CustomerLoads
                \/ r.ans = Ok(Answer(r.rows))
  BY DEF Fine
<1>1. CASE calls[s].op \in CustomerLoads
  <2>1. r = Done(srv)
    <3> HIDE <1>a, <1>b
    <3>1. CASE calls[s].op = "getCustomer"
      BY <3>1, SMTT(30) DEF CustomerReplies
    <3>2. CASE calls[s].op = "getResults"
      BY <3>2, SMTT(30) DEF CustomerReplies
    <3>3. CASE calls[s].op = "reload"
      BY <3>3, SMTT(30) DEF CustomerReplies
    <3>4. CASE calls[s].op = "getEdd"
      BY <3>4, SMTT(30) DEF CustomerReplies
    <3> QED BY <1>1, <3>1, <3>2, <3>3, <3>4 DEF CustomerLoads
  <2>2. Fine(srv)
    BY DEF Fine
  <2> QED BY <2>1, <2>2, <1>a
<1>2. CASE calls[s].op = "upload"
  <2>1. CASE r \in Refuse
    BY <1>2, <1>b, <2>1 DEF CustomerLoads
  <2>2. CASE r \notin Refuse
    <3>1. PICK ocr \in BOOLEAN, face \in BOOLEAN :
            r = Done(KycBackend!FaceMatch(KycBackend!UploadStored(srv, calls[s].arg, ocr),
                                          calls[s].arg, face))
      BY <1>2, <2>2 DEF CustomerReplies
    <3>2. KycBackend!FaceMatch(KycBackend!UploadStored(srv, calls[s].arg, ocr),
                               calls[s].arg, face) \in KycBackend!View
      BY <1>2, KycViews
    <3>3. Fine(KycBackend!FaceMatch(KycBackend!UploadStored(srv, calls[s].arg, ocr),
                                    calls[s].arg, face))
      BY <1>2, <3>2 DEF Fine, CustomerLoads, KeepsNadra
    <3> QED BY <3>1, <3>3, <1>a
  <2> QED BY <2>1, <2>2
<1>3. CASE calls[s].op = "verifyNadra"
  <2>1. PICK answer \in {"pass", "fail", "pending"} :
          r = Done(KycBackend!VerifyIdentity(srv, answer))
    BY <1>3 DEF CustomerReplies
  <2>2. Fine(KycBackend!VerifyIdentity(srv, answer))
    BY <1>3, KycViews DEF Fine, CustomerLoads, KeepsNadra
  <2> QED BY <2>1, <2>2, <1>a
<1>4. CASE calls[s].op = "scoreRisk"
  <2>1. PICK t \in {"low", "high"} : r = Done(KycBackend!ScoreRisk(srv, t))
    BY <1>4 DEF CustomerReplies
  <2>2. Fine(KycBackend!ScoreRisk(srv, t))
    BY <1>4, KycViews DEF Fine, CustomerLoads
  <2> QED BY <2>1, <2>2, <1>a
<1>5. CASE calls[s].op = "runKyc"
  <2>1. PICK answer \in {"pass", "fail", "pending"}, t \in {"low", "high"} :
          r = Done(KycBackend!RunKycPipeline(srv, TRUE, answer, t))
    <3> DEFINE Piped(answer, t) == Done(KycBackend!RunKycPipeline(srv, TRUE, answer, t))
    <3>1. CustomerReplies(s) =
            {Piped(answer, t) : answer \in {"pass", "fail", "pending"}, t \in {"low", "high"}}
      BY <1>5 DEF CustomerReplies
    <3>2. \E answer \in {"pass", "fail", "pending"}, t \in {"low", "high"} : r = Piped(answer, t)
      <4> HIDE DEF Piped
      <4> QED BY <3>1
    <3> QED BY <3>2
  <2>2. Fine(KycBackend!RunKycPipeline(srv, TRUE, answer, t))
    BY <1>5, PipelineView DEF Fine, CustomerLoads, KeepsNadra
  <2> QED BY <2>1, <2>2, <1>a
<1>6. CASE calls[s].op = "startEdd"
  <2>1. r = Done(KycBackend!StartEdd(srv, 1)) \/ r \in Refuse
    BY <1>6 DEF CustomerReplies, If
  <2>2. Fine(KycBackend!StartEdd(srv, 1))
    BY <1>6, KycViews DEF Fine, CustomerLoads
  <2> QED BY <1>6, <2>1, <2>2, <1>a, <1>b DEF CustomerLoads
<1>7. CASE calls[s].op = "submitSof"
  <2>1. r = Done(KycBackend!SubmitSourceOfFunds(srv, FALSE)) \/ r \in Refuse
    <3>1. CustomerReplies(s) = If(KycBackend!CanSubmitSourceOfFunds(srv),
                                  KycBackend!SubmitSourceOfFunds(srv, FALSE))
      BY <1>7 DEF CustomerReplies
    <3> QED BY <3>1 DEF If
  <2>2. Fine(KycBackend!SubmitSourceOfFunds(srv, FALSE))
    BY <1>7, KycViews DEF Fine, CustomerLoads
  <2> QED BY <1>7, <2>1, <2>2, <1>a, <1>b DEF CustomerLoads
<1>8. CASE calls[s].op \in {"approve", "reject"}
  <2> DEFINE verdict == IF calls[s].op = "approve" THEN "approved" ELSE "rejected"
  <2>1. r = Done(KycBackend!DecideEdd(srv, verdict)) \/ r \in Refuse
    BY <1>8 DEF CustomerReplies, If
  <2>2. Fine(KycBackend!DecideEdd(srv, verdict))
    BY <1>8, KycViews DEF Fine, CustomerLoads
  <2> QED BY <1>8, <2>1, <2>2, <1>a, <1>b DEF CustomerLoads
<1> QED BY <1>1, <1>2, <1>3, <1>4, <1>5, <1>6, <1>7, <1>8 DEF CustomerOp

CustomerCall(c) ==
  /\ c.op \in CustomerOp
  /\ c.op = "upload" => c.arg \in KycBackend!DocKind
  /\ c.ans.state = "ok" => c.ans.data.status \in KycBackend!KycStatus

CustomerTyped ==
  page = "customer" =>
    /\ {"status", "nadra", "error", "rejectOpen"} \subseteq DOMAIN ui
    /\ ui.status \in KycBackend!KycStatus \cup {"none"}
    /\ srv \in KycBackend!View
    /\ \A s \in Slot : calls[s] # Free => CustomerCall(calls[s])

(* What is shown, or has been answered and will be, is what the rows say;   *)
(* the results may be behind while their load is still to follow.          *)
CustomerCallFits(c, u, r) ==
  /\ c.op \in CustomerLoads => c.ans = Pending \/ c.ans.state = "ok"
  /\ c.op \in {"getCustomer", "reload", "scoreRisk", "runKyc", "approve", "reject"} /\
       c.ans.state = "ok" => c.ans.data.status = r.status
  /\ c.op \in {"getResults", "reload"} /\ c.ans.state = "ok" => c.ans.data.nadra = r.nadra
  /\ c.op = "getCustomer" /\ u.status = r.status => u.nadra = r.nadra
  /\ c.op = "getResults" => u.status = r.status
  /\ c.op \in KeepsNadra => u.nadra = r.nadra
  /\ \/ c.op \in {"submitSof", "getEdd"}
     \/ c.op \notin CustomerLoads /\ c.ans.state # "ok"
     => u.status = r.status /\ u.nadra = r.nadra

CustomerWith(cs, u, r) ==
  /\ NoneIn(cs) => u.status = r.status /\ u.nadra = r.nadra
  /\ \A s \in Slot : cs[s] # Free => CustomerCallFits(cs[s], u, r)

CustomerKnown == page = "customer" /\ smooth => CustomerWith(calls, ui, srv)

LEMMA CustomerStarts ==
  ASSUME ConsoleInit, page = "customer" => CustomerInit
  PROVE  CustomerTyped /\ CustomerKnown
<1> SUFFICES ASSUME page = "customer" PROVE CustomerTyped /\ CustomerWith(calls, ui, srv)
  BY DEF CustomerTyped, CustomerKnown
<1>1. CustomerInit
  OBVIOUS
<1>2. OnlyIn(calls, Call("getCustomer", "none", {"loading"}))
  BY <1>1, SmoothMounted DEF CustomerInit
<1>3. {"status", "nadra", "error", "rejectOpen"} \subseteq DOMAIN ui /\ ui.status = "none"
  BY <1>1 DEF CustomerInit
<1>4. PICK status \in KycBackend!KycStatus \ {"frozen"} : srv = Arrived(status)
  BY <1>1 DEF CustomerInit
<1>5. srv \in KycBackend!View
  <2>1. KycBackend!NewCustomer \in KycBackend!View
    BY DEF KycBackend!NewCustomer, KycBackend!View, KycBackend!KycStatus, KycBackend!RiskTier,
           KycBackend!CaseState, KycBackend!Funds, KycBackend!FreezeState
  <2>2. PICK docs \in SUBSET KycBackend!DocKind :
          docs = CASE status = "initiated" -> {}
                   [] status \in {"documents_uploaded", "identity_verified"} -> {"id"}
                   [] OTHER -> {"id", "selfie"}
    BY DEF KycBackend!DocKind
  <2>3. PICK cases \in [KycBackend!Id -> KycBackend!CaseState] :
          cases = IF status = "edd_in_progress" THEN [i \in {1} |-> "pending"]
                  ELSE KycBackend!NewCustomer.cases
    <3>1. [i \in {1} |-> "pending"] \in [KycBackend!Id -> KycBackend!CaseState]
      BY DEF KycBackend!Id, KycBackend!CaseState
    <3> QED BY <2>1, <3>1 DEF KycBackend!View
  <2>4. PICK tier \in KycBackend!RiskTier :
          tier = IF status \in {"edd_required", "edd_in_progress"} THEN "high"
                 ELSE KycBackend!NewCustomer.tier
    BY <2>1 DEF KycBackend!View, KycBackend!RiskTier
  <2>5. srv = [KycBackend!NewCustomer EXCEPT
                 !.status = status, !.docs = docs, !.nadra = (status = "identity_verified"),
                 !.tier = tier, !.cases = cases]
    BY <1>4, <2>2, <2>3, <2>4 DEF Arrived
  <2> QED BY <2>1, <2>5 DEF KycBackend!View
<1>6. CustomerTyped
  BY <1>2, <1>3, <1>5, Fields DEF CustomerTyped, CustomerCall, CustomerOp, CustomerLoads, OnlyIn
<1>7. ui.status # srv.status
  BY <1>3, <1>5 DEF KycBackend!View, KycBackend!KycStatus
<1> QED BY <1>2, <1>6, <1>7, Fields
        DEF CustomerWith, CustomerCallFits, CustomerLoads, KeepsNadra, OnlyIn, NoneIn

LEMMA AnswerOfView ==
  ASSUME NEW v \in KycBackend!View
  PROVE  /\ Ok(Answer(v)).state = "ok" /\ Ok(Answer(v)).data.status = v.status
         /\ Ok(Answer(v)).data.nadra = v.nadra /\ v.status \in KycBackend!KycStatus
BY DEF Ok, Answer, KycBackend!View

(* The types are kept by every step, smooth or not. *)
LEMMA CustomerTypesStep ==
  ASSUME ConsoleInv, CustomerTyped, CustomerNext, page' = page
  PROVE  CustomerTyped'
<1>0. page = "customer"
  BY DEF CustomerNext
<1> DEFINE OkUi(u) == /\ {"status", "nadra", "error", "rejectOpen"} \subseteq DOMAIN u
                      /\ u.status \in KycBackend!KycStatus \cup {"none"}
<1>a. OkUi(ui) /\ srv \in KycBackend!View /\ \A s \in Slot : calls[s] # Free => CustomerCall(calls[s])
  BY <1>0 DEF CustomerTyped
<1> SUFFICES /\ OkUi(ui') /\ srv' \in KycBackend!View
             /\ \A s \in Slot : calls'[s] # Free => CustomerCall(calls'[s])
  BY <1>0 DEF CustomerTyped
<1>b. ASSUME NEW control \in CustomerOp, NEW arg, NEW flags, Click(control, arg, flags),
             control = "upload" => arg \in KycBackend!DocKind
      PROVE  /\ OkUi(ui') /\ srv' \in KycBackend!View
             /\ \A s \in Slot : calls'[s] # Free => CustomerCall(calls'[s])
  <2>1. ui' = ui /\ srv' = srv /\ Send(control, arg, flags)
    BY <1>b DEF Click
  <2>2. \A t \in Slot : calls'[t] \in {calls[t], Call(control, arg, flags)}
    BY <2>1, EachSend
  <2>3. CustomerCall(Call(control, arg, flags))
    BY <1>b, Fields DEF CustomerCall
  <2> QED BY <1>a, <2>1, <2>2, <2>3
<1>1. CASE handleUpload
  <2>1. PICK kind \in UploadKinds : Click("upload", kind, {"uploading"})
    BY <1>1 DEF handleUpload
  <2>2. kind \in KycBackend!DocKind
    BY DEF UploadKinds, KycBackend!DocKind
  <2> QED BY <1>b, <2>1, <2>2 DEF CustomerOp
<1>2. CASE handleVerifyNadra \/ handleScoreRisk \/ handleRunKycPipeline \/ handleStartEdd
           \/ handleSubmitSof \/ handleApproveEdd \/ handleRejectEdd
  <2> HIDE DEF OkUi
  <2>1. CASE handleVerifyNadra
    BY <1>b, <2>1 DEF handleVerifyNadra, CustomerOp
  <2>2. CASE handleScoreRisk
    BY <1>b, <2>2 DEF handleScoreRisk, CustomerOp
  <2>3. CASE handleRunKycPipeline
    BY <1>b, <2>3 DEF handleRunKycPipeline, CustomerOp
  <2>4. CASE handleStartEdd
    BY <1>b, <2>4 DEF handleStartEdd, CustomerOp
  <2>5. CASE handleSubmitSof
    BY <1>b, <2>5 DEF handleSubmitSof, CustomerOp
  <2>6. CASE handleApproveEdd
    BY <1>b, <2>6 DEF handleApproveEdd, CustomerOp
  <2>7. CASE handleRejectEdd
    BY <1>b, <2>7 DEF handleRejectEdd, CustomerOp
  <2> QED BY <1>2, <2>1, <2>2, <2>3, <2>4, <2>5, <2>6, <2>7
<1>3. CASE SecondEddCard
  <2>1. PICK control \in EddControls : Click(control, "second", {})
    BY <1>3 DEF SecondEddCard
  <2>2. control \in CustomerOp /\ control # "upload"
    BY DEF EddControls, CustomerOp
  <2> QED BY <1>b, <2>1, <2>2
<1>4. CASE OpenReject
  BY <1>a, <1>4 DEF OpenReject, NoCall
<1>5. CASE CustomerColleague
  <2>1. \/ Others(KycBackend!VerifyIdentity(srv, "pass"))
        \/ Others(KycBackend!Freeze(srv, 1))
    BY <1>5 DEF CustomerColleague
  <2>2. srv' \in KycBackend!View
    <3>1. /\ KycBackend!VerifyIdentity(srv, "pass") \in KycBackend!View
          /\ KycBackend!Freeze(srv, 1) \in KycBackend!View
      BY <1>a, KycViews
    <3>2. srv' \in {KycBackend!VerifyIdentity(srv, "pass"), KycBackend!Freeze(srv, 1)}
      BY <2>1 DEF Others
    <3> QED BY <3>1, <3>2
  <2>3. ui' = ui /\ calls' = calls
    BY <2>1 DEF Others
  <2> QED BY <1>a, <2>2, <2>3
<1>6. ASSUME NEW s \in Slot, Serve(s, CustomerReplies(s))
      PROVE  /\ OkUi(ui') /\ srv' \in KycBackend!View
             /\ \A t \in Slot : calls'[t] # Free => CustomerCall(calls'[t])
  <2>1. InFlight(s) /\ ui' = ui
    BY <1>6, EachServe
  <2>2. PICK r \in CustomerReplies(s) :
          /\ srv' = r.rows
          /\ \A t \in Slot : \/ calls'[t] = calls[t]
                             \/ /\ t = s /\ calls'[t].op = calls[t].op
                                /\ calls'[t].arg = calls[t].arg /\ calls'[t].ans = r.ans
    BY <1>6, EachServe
  <2>3. CustomerCall(calls[s])
    BY <1>a, <2>1 DEF InFlight
  <2>4. r.rows \in KycBackend!View /\ r.ans \in {Failed, Ok(Answer(r.rows))}
    BY <1>a, <2>3, CustomerReply DEF CustomerCall
  <2>5. r.ans.state = "ok" => r.ans.data.status \in KycBackend!KycStatus
    BY <2>4, AnswerOfView, AnswerFields
  <2>6. \A t \in Slot : calls'[t] # Free => CustomerCall(calls'[t])
    BY <1>a, <2>1, <2>2, <2>3, <2>5 DEF CustomerCall
  <2> QED BY <1>a, <2>1, <2>2, <2>4, <2>6
<1>7. ASSUME NEW s \in Slot, Lose(s)
      PROVE  /\ OkUi(ui') /\ srv' \in KycBackend!View
             /\ \A t \in Slot : calls'[t] # Free => CustomerCall(calls'[t])
  <2>1. /\ InFlight(s) /\ ui' = ui /\ srv' = srv
        /\ \A t \in Slot : \/ calls'[t] = calls[t]
                           \/ /\ t = s /\ calls'[t].op = calls[t].op
                              /\ calls'[t].arg = calls[t].arg /\ calls'[t].ans = Failed
    BY <1>7, EachLose
  <2>2. \A t \in Slot : calls'[t] # Free => CustomerCall(calls'[t])
    BY <1>a, <2>1, AnswerFields DEF CustomerCall, InFlight
  <2> QED BY <1>a, <2>1, <2>2
(* A handler goes on: it ends, or makes a call that has no answer yet. *)
<1>c. ASSUME NEW s \in Slot,
             \/ End(s)
             \/ \E op \in CustomerLoads : \E arg, flags : \/ Chain(s, op, arg, flags)
                                                      \/ EndThen(s, op, arg, flags)
      PROVE  \A t \in Slot : calls'[t] # Free => CustomerCall(calls'[t])
  <2>1. CASE End(s)
    BY <1>a, <2>1, EachEnd
  <2>2. ASSUME NEW op \in CustomerLoads, NEW arg, NEW flags,
               Chain(s, op, arg, flags) \/ EndThen(s, op, arg, flags)
        PROVE  \A t \in Slot : calls'[t] # Free => CustomerCall(calls'[t])
    <3>1. \A t \in Slot : calls'[t] = calls[t] \/ \E f : calls'[t] = Call(op, arg, f)
      BY <2>2, EachNext
    <3>2. \A f : CustomerCall(Call(op, arg, f))
      BY Fields DEF CustomerCall, CustomerOp, CustomerLoads
    <3> QED BY <1>a, <3>1, <3>2
  <2> QED BY <1>c, <2>1, <2>2
<1>d. ASSUME NEW s \in Slot, NEW op, op # "free", Awaits(s, op), Succeeded(s)
      PROVE  calls[s].ans.data.status \in KycBackend!KycStatus
  BY <1>a, <1>d, AwaitsIsInFlight DEF InFlight, Succeeded, CustomerCall
<1>8. ASSUME NEW s \in Slot, NEW op, op # "free", Awaits(s, op), Succeeded(s), srv' = srv,
             setCustomer(s, calls[s].ans.data.status)
      PROVE  /\ OkUi(ui') /\ srv' \in KycBackend!View
             /\ \A t \in Slot : calls'[t] # Free => CustomerCall(calls'[t])
  <2>1. ui' = [ui EXCEPT !.status = calls[s].ans.data.status]
    BY <1>8 DEF setCustomer
  <2>2. EndThen(s, "getResults", "none", {}) \/ End(s)
    BY <1>8 DEF setCustomer
  <2>3. "getResults" \in CustomerLoads
    BY DEF CustomerLoads
  <2> QED BY <1>8, <1>a, <1>c, <1>d, <2>1, <2>2, <2>3
<1>9. ASSUME NEW s \in Slot,
             Uploaded(s) \/ NadraVerified(s) \/ EddStarted(s) \/ SofSubmitted(s) \/ EddRead(s)
      PROVE  /\ OkUi(ui') /\ srv' \in KycBackend!View
             /\ \A t \in Slot : calls'[t] # Free => CustomerCall(calls'[t])
  <2>1. ui' = ui /\ srv' = srv
    BY <1>9 DEF Uploaded, NadraVerified, EddStarted, SofSubmitted, EddRead, After
  <2>2. \/ End(s)
        \/ \E op \in CustomerLoads : \E arg, flags : Chain(s, op, arg, flags)
    <3>1. {"reload", "getCustomer", "getEdd"} \subseteq CustomerLoads
      BY DEF CustomerLoads
    <3> QED BY <1>9, <3>1 DEF Uploaded, NadraVerified, EddStarted, SofSubmitted, EddRead, After
  <2>3. \A t \in Slot : calls'[t] # Free => CustomerCall(calls'[t])
    BY <1>c, <2>2
  <2> QED BY <1>a, <2>1, <2>3
<1>10. ASSUME NEW s \in Slot,
              Reloaded(s) \/ RiskScored(s) \/ KycRun(s) \/ ResultsRead(s) \/ EddDecided(s)
              \/ CustomerLoaded(s)
       PROVE  /\ OkUi(ui') /\ srv' \in KycBackend!View
              /\ \A t \in Slot : calls'[t] # Free => CustomerCall(calls'[t])
  <2> HIDE DEF OkUi
  <2>1. srv' = srv
    BY <1>10 DEF Reloaded, RiskScored, KycRun, ResultsRead, EddDecided, CustomerLoaded, After
  <2>2. CASE RiskScored(s) \/ EddDecided(s) \/ (CustomerLoaded(s) /\ Succeeded(s))
    <3>1. \/ End(s) /\ ui' = ui
          \/ \E op : /\ op # "free" /\ Awaits(s, op) /\ Succeeded(s)
                     /\ setCustomer(s, calls[s].ans.data.status)
      BY <2>2 DEF RiskScored, EddDecided, CustomerLoaded, After
    <3> QED BY <1>8, <1>a, <1>c, <2>1, <3>1
  <2>3. CASE CustomerLoaded(s) /\ ~Succeeded(s)
    <3>1. End(s) /\ ui' = [ui EXCEPT !.error = @ \/ calls[s].arg = "none"]
      BY <2>3 DEF CustomerLoaded
    <3>2. OkUi(ui')
      BY <1>a, <3>1 DEF OkUi
    <3> QED BY <1>a, <1>c, <2>1, <3>1, <3>2
  <2>4. CASE Reloaded(s)
    <3>1. CASE Succeeded(s)
      <4>1. /\ Awaits(s, "reload")
            /\ ui' = [ui EXCEPT !.status = calls[s].ans.data.status,
                                !.nadra = calls[s].ans.data.nadra]
            /\ End(s) \/ EndThen(s, "getResults", "none", {})
        BY <2>4, <3>1 DEF Reloaded, After
      <4>2. OkUi(ui')
        BY <1>a, <1>d, <3>1, <4>1 DEF OkUi
      <4>3. "getResults" \in CustomerLoads
        BY DEF CustomerLoads
      <4> QED BY <1>a, <1>c, <2>1, <4>1, <4>2, <4>3
    <3>2. CASE ~Succeeded(s)
      BY <1>a, <1>c, <2>1, <2>4, <3>2 DEF Reloaded, After
    <3> QED BY <3>1, <3>2
  <2>5. CASE KycRun(s)
    <3>1. CASE Succeeded(s)
      <4>1. /\ Awaits(s, "runKyc")
            /\ ui' = [ui EXCEPT !.status = calls[s].ans.data.status]
            /\ Chain(s, "getResults", "none", {})
        BY <2>5, <3>1 DEF KycRun, After
      <4>2. OkUi(ui')
        BY <1>a, <1>d, <3>1, <4>1 DEF OkUi
      <4>3. "getResults" \in CustomerLoads
        BY DEF CustomerLoads
      <4> QED BY <1>a, <1>c, <2>1, <4>1, <4>2, <4>3
    <3>2. CASE ~Succeeded(s)
      BY <1>a, <1>c, <2>1, <2>5, <3>2 DEF KycRun, After
    <3> QED BY <3>1, <3>2
  <2>6. CASE ResultsRead(s)
    <3>1. End(s) /\ (ui' = [ui EXCEPT !.nadra = calls[s].ans.data.nadra] \/ ui' = ui)
      BY <2>6 DEF ResultsRead, After
    <3>2. OkUi(ui')
      BY <1>a, <3>1 DEF OkUi
    <3> QED BY <1>a, <1>c, <2>1, <3>1, <3>2
  <2> QED BY <1>10, <2>2, <2>3, <2>4, <2>5, <2>6
<1> QED BY <1>1, <1>2, <1>3, <1>4, <1>5, <1>6, <1>7, <1>9, <1>10 DEF CustomerNext

LEMMA CustomerStep ==
  ASSUME ConsoleInv, CustomerTyped, CustomerKnown, CustomerNext, page' = page
  PROVE  CustomerKnown'
<1> SUFFICES ASSUME smooth' PROVE CustomerWith(calls', ui', srv')
  BY DEF CustomerKnown
<1>0. /\ page = "customer" /\ srv \in KycBackend!View
      /\ {"status", "nadra", "error", "rejectOpen"} \subseteq DOMAIN ui
  BY DEF CustomerNext, CustomerTyped
<1>a. ASSUME NEW control, control \notin CustomerLoads, NEW arg, NEW flags,
             Click(control, arg, flags)
      PROVE  CustomerWith(calls', ui', srv')
  <2>1. ui' = ui /\ srv' = srv /\ Send(control, arg, flags)
    BY <1>a DEF Click
  <2>2. smooth /\ NoneIn(calls) /\ OnlyIn(calls', Call(control, arg, flags))
    BY <2>1, SmoothSend
  <2>3. ui.status = srv.status /\ ui.nadra = srv.nadra
    BY <1>0, <2>2 DEF CustomerKnown, CustomerWith
  <2>4. CustomerCallFits(Call(control, arg, flags), ui, srv)
    BY <1>a, <2>3, Fields DEF CustomerCallFits, CustomerLoads
  <2> QED BY <2>1, <2>2, <2>4 DEF CustomerWith, OnlyIn, NoneIn
<1>1. CASE handleUpload \/ handleVerifyNadra \/ handleScoreRisk \/ handleRunKycPipeline
           \/ handleStartEdd \/ handleSubmitSof \/ handleApproveEdd \/ handleRejectEdd
           \/ SecondEddCard
  <2>1. \E control, arg, flags : control \notin CustomerLoads /\ Click(control, arg, flags)
    <3>1. CASE handleUpload
      BY <3>1 DEF handleUpload, CustomerLoads
    <3>2. CASE handleVerifyNadra \/ handleScoreRisk \/ handleRunKycPipeline \/ handleStartEdd
      BY <3>2 DEF handleVerifyNadra, handleScoreRisk, handleRunKycPipeline, handleStartEdd,
                  CustomerLoads
    <3>3. CASE handleSubmitSof \/ handleApproveEdd \/ handleRejectEdd
      BY <3>3 DEF handleSubmitSof, handleApproveEdd, handleRejectEdd, CustomerLoads
    <3>4. CASE SecondEddCard
      <4>1. PICK control \in EddControls : Click(control, "second", {})
        BY <3>4 DEF SecondEddCard
      <4>2. control \notin CustomerLoads
        BY DEF EddControls, CustomerLoads
      <4> QED BY <4>1, <4>2
    <3> QED BY <1>1, <3>1, <3>2, <3>3, <3>4
  <2> QED BY <1>a, <2>1
<1>2. CASE OpenReject
  <2>1. /\ calls' = calls /\ smooth /\ srv' = srv
        /\ ui'.status = ui.status /\ ui'.nadra = ui.nadra
    BY <1>0, <1>2 DEF OpenReject, NoCall
  <2> QED BY <1>0, <2>1 DEF CustomerKnown, CustomerWith, CustomerCallFits
<1>3. CASE CustomerColleague
  BY <1>3 DEF CustomerColleague, Others
<1>4. ASSUME NEW s \in Slot, Lose(s) PROVE FALSE
  BY <1>4 DEF Lose
<1>5. ASSUME NEW s \in Slot, Serve(s, CustomerReplies(s))
      PROVE  CustomerWith(calls', ui', srv')
  <2> DEFINE c == calls'[s]
  <2>1. /\ smooth /\ InFlight(s) /\ calls[s].ans = Pending /\ ui' = ui
        /\ OnlyIn(calls', c) /\ c.op = calls[s].op
    BY <1>5, SmoothServe
  <2>2. PICK r \in CustomerReplies(s) : srv' = r.rows /\ c.ans = r.ans
    BY <1>5, SmoothServe
  <2> HIDE DEF c
  <2>3. CustomerCall(calls[s]) /\ CustomerCallFits(calls[s], ui, srv)
    BY <1>0, <2>1 DEF CustomerTyped, CustomerKnown, CustomerWith, InFlight
  <2>4. /\ srv' \in KycBackend!View
        /\ \/ c.ans = Failed /\ srv' = srv /\ c.op \notin CustomerLoads
           \/ c.ans = Ok(Answer(srv'))
        /\ c.op \in CustomerLoads => srv' = srv
        /\ c.op \in KeepsNadra => srv'.nadra = srv.nadra
        /\ c.op = "submitSof" => srv'.status = srv.status
    BY <1>0, <2>1, <2>2, <2>3, CustomerReply DEF CustomerCall
  <2>5. CASE c.ans = Failed /\ srv' = srv /\ c.op \notin CustomerLoads
    <3>1. CustomerCallFits(c, ui, srv)
      BY <2>1, <2>3, <2>5, AnswerFields, Fields DEF CustomerCallFits, CustomerLoads
    <3> QED BY <2>1, <2>5, <3>1 DEF CustomerWith, OnlyIn, NoneIn
  <2>6. CASE c.ans = Ok(Answer(srv'))
    <3>1. /\ c.ans.state = "ok" /\ c.ans.data.status = srv'.status
          /\ c.ans.data.nadra = srv'.nadra
      BY <2>4, <2>6, AnswerOfView
    <3>2. CustomerCallFits(c, ui, srv')
      BY <2>1, <2>3, <2>4, <3>1, Fields DEF CustomerCallFits, CustomerLoads, KeepsNadra
    <3> QED BY <2>1, <3>2 DEF CustomerWith, OnlyIn, NoneIn
  <2> QED BY <2>4, <2>5, <2>6
(* What a call that is answered has brought. *)
<1>b. ASSUME NEW s \in Slot, NEW op, op # "free", Awaits(s, op), smooth
      PROVE  /\ InFlight(s) /\ CustomerCallFits(calls[s], ui, srv) /\ calls[s].op = op
             /\ calls[s].ans.state # "pending"
             /\ op \in CustomerLoads => Succeeded(s)
  <2>1. /\ InFlight(s) /\ CustomerCallFits(calls[s], ui, srv) /\ calls[s].op = op
        /\ calls[s].ans.state # "pending"
    BY <1>0, <1>b, AwaitsIsInFlight
       DEF CustomerKnown, CustomerWith, InFlight, Awaits
  <2> QED BY <2>1, Fields DEF CustomerCallFits, Succeeded
(* What follows it: nothing, or a load that fits what is shown. *)
<1>c. ASSUME NEW s \in Slot, InFlight(s), End(s), ui'.status = srv.status, ui'.nadra = srv.nadra,
             srv' = srv
      PROVE  CustomerWith(calls', ui', srv')
  BY <1>c, SmoothEnd DEF CustomerWith, NoneIn
<1>d. ASSUME NEW s \in Slot, InFlight(s), srv' = srv, NEW op \in CustomerLoads, NEW arg, NEW flags,
             Chain(s, op, arg, flags) \/ EndThen(s, op, arg, flags),
             op = "getCustomer" /\ ui'.status = srv.status => ui'.nadra = srv.nadra,
             op = "getResults" => ui'.status = srv.status,
             op = "getEdd" => ui'.status = srv.status /\ ui'.nadra = srv.nadra
      PROVE  CustomerWith(calls', ui', srv')
  <2>1. \E f : OnlyIn(calls', Call(op, arg, f))
    BY <1>d, SmoothChain, SmoothEndThen
  <2>2. \A f : CustomerCallFits(Call(op, arg, f), ui', srv)
    BY <1>d, Fields DEF CustomerCallFits, CustomerLoads, KeepsNadra
  <2> QED BY <1>d, <2>1, <2>2 DEF CustomerWith, OnlyIn, NoneIn
<1>e. ASSUME NEW s \in Slot, InFlight(s), srv' = srv, setCustomer(s, srv.status),
             ui.status = srv.status => ui.nadra = srv.nadra
      PROVE  CustomerWith(calls', ui', srv')
  <2>1. ui'.status = srv.status /\ ui'.nadra = ui.nadra
    BY <1>0, <1>e DEF setCustomer
  <2>2. "getResults" \in CustomerLoads
    BY DEF CustomerLoads
  <2> QED BY <1>c, <1>d, <1>e, <2>1, <2>2 DEF setCustomer
<1>6. ASSUME NEW s \in Slot, Uploaded(s) \/ NadraVerified(s)
      PROVE  CustomerWith(calls', ui', srv')
  <2>1. PICK op \in {"upload", "verifyNadra"} :
          /\ Awaits(s, op) /\ ui' = ui /\ srv' = srv
          /\ IF Succeeded(s) THEN Chain(s, "reload", "none", {}) ELSE End(s)
    BY <1>6 DEF Uploaded, NadraVerified, After
  <2>2. /\ InFlight(s) /\ CustomerCallFits(calls[s], ui, srv) /\ calls[s].op = op
    BY <1>b, <2>1 DEF End, Chain
  <2>3. CASE Succeeded(s)
    <3>1. "reload" \in CustomerLoads
      BY DEF CustomerLoads
    <3> QED BY <1>d, <2>1, <2>2, <2>3, <3>1
  <2>4. CASE ~Succeeded(s)
    <3>1. ui.status = srv.status /\ ui.nadra = srv.nadra
      BY <2>1, <2>2, <2>4 DEF CustomerCallFits, CustomerLoads, Succeeded
    <3> QED BY <1>c, <2>1, <2>2, <2>4, <3>1
  <2> QED BY <2>3, <2>4
<1>7. ASSUME NEW s \in Slot, EddStarted(s) PROVE CustomerWith(calls', ui', srv')
  <2>1. /\ Awaits(s, "startEdd") /\ ui' = ui /\ srv' = srv
        /\ IF Succeeded(s) THEN Chain(s, "getCustomer", "again", {}) ELSE End(s)
    BY <1>7 DEF EddStarted, After
  <2>2. InFlight(s) /\ CustomerCallFits(calls[s], ui, srv) /\ calls[s].op = "startEdd"
    BY <1>b, <2>1 DEF End, Chain
  <2>3. /\ ui.nadra = srv.nadra
        /\ ~Succeeded(s) => ui.status = srv.status
    BY <2>2 DEF CustomerCallFits, CustomerLoads, KeepsNadra, Succeeded
  <2>4. "getCustomer" \in CustomerLoads
    BY DEF CustomerLoads
  <2> QED BY <1>c, <1>d, <2>1, <2>2, <2>3, <2>4
<1>8. ASSUME NEW s \in Slot, SofSubmitted(s) PROVE CustomerWith(calls', ui', srv')
  <2>1. /\ Awaits(s, "submitSof") /\ ui' = ui /\ srv' = srv
        /\ \/ End(s)
           \/ \E op \in {"getCustomer", "getEdd"} : Chain(s, op, "again", {})
    BY <1>8 DEF SofSubmitted, After
  <2>2. InFlight(s) /\ CustomerCallFits(calls[s], ui, srv) /\ calls[s].op = "submitSof"
    BY <1>b, <2>1 DEF End, Chain
  <2>3. ui.nadra = srv.nadra /\ ui.status = srv.status
    BY <2>2 DEF CustomerCallFits
  <2>4. {"getCustomer", "getEdd"} \subseteq CustomerLoads
    BY DEF CustomerLoads
  <2> QED BY <1>c, <1>d, <2>1, <2>2, <2>3, <2>4
<1>9. ASSUME NEW s \in Slot, EddRead(s) PROVE CustomerWith(calls', ui', srv')
  <2>1. /\ Awaits(s, "getEdd") /\ ui' = ui /\ srv' = srv /\ End(s)
    BY <1>9 DEF EddRead
  <2>2. InFlight(s) /\ CustomerCallFits(calls[s], ui, srv) /\ calls[s].op = "getEdd"
    BY <1>b, <2>1 DEF End, Chain
  <2> QED BY <1>c, <2>1, <2>2 DEF CustomerCallFits
<1>10. ASSUME NEW s \in Slot, RiskScored(s) \/ EddDecided(s) PROVE CustomerWith(calls', ui', srv')
  <2>1. PICK op \in {"scoreRisk", "approve", "reject"} :
          /\ Awaits(s, op) /\ srv' = srv
          /\ IF Succeeded(s) THEN setCustomer(s, calls[s].ans.data.status)
             ELSE End(s) /\ ui' = ui
    BY <1>10 DEF RiskScored, EddDecided, After
  <2>2. smooth
    BY <2>1 DEF setCustomer, End, EndThen
  <2>3. InFlight(s) /\ CustomerCallFits(calls[s], ui, srv) /\ calls[s].op = op
    BY <1>b, <2>1, <2>2
  <2>4. /\ ui.nadra = srv.nadra
        /\ Succeeded(s) => calls[s].ans.data.status = srv.status
        /\ ~Succeeded(s) => ui.status = srv.status
    BY <2>1, <2>3 DEF CustomerCallFits, CustomerLoads, KeepsNadra, Succeeded
  <2> QED BY <1>c, <1>e, <2>1, <2>3, <2>4
<1>11. ASSUME NEW s \in Slot, CustomerLoaded(s) PROVE CustomerWith(calls', ui', srv')
  <2>1. /\ Awaits(s, "getCustomer") /\ srv' = srv
        /\ Succeeded(s) => setCustomer(s, calls[s].ans.data.status)
        /\ ~Succeeded(s) => End(s)
    BY <1>11 DEF CustomerLoaded
  <2>2. smooth
    BY <2>1 DEF setCustomer, End, EndThen
  <2>3. /\ InFlight(s) /\ CustomerCallFits(calls[s], ui, srv) /\ calls[s].op = "getCustomer"
        /\ Succeeded(s)
    BY <1>b, <2>1, <2>2 DEF CustomerLoads
  <2>4. /\ ui.status = srv.status => ui.nadra = srv.nadra
        /\ calls[s].ans.data.status = srv.status
    BY <2>3 DEF CustomerCallFits, Succeeded
  <2> QED BY <1>e, <2>1, <2>3, <2>4
<1>12. ASSUME NEW s \in Slot, Reloaded(s) PROVE CustomerWith(calls', ui', srv')
  <2>1. smooth /\ Awaits(s, "reload") /\ srv' = srv
    BY <1>12 DEF Reloaded, After, End, EndThen
  <2>2. /\ InFlight(s) /\ CustomerCallFits(calls[s], ui, srv) /\ calls[s].op = "reload"
        /\ Succeeded(s)
    BY <1>b, <2>1 DEF CustomerLoads
  <2>3. calls[s].ans.data.status = srv.status /\ calls[s].ans.data.nadra = srv.nadra
    BY <2>2 DEF CustomerCallFits, Succeeded
  <2>4. /\ ui' = [ui EXCEPT !.status = srv.status, !.nadra = srv.nadra]
        /\ End(s) \/ EndThen(s, "getResults", "none", {})
    BY <1>12, <2>2, <2>3 DEF Reloaded, After
  <2>5. ui'.status = srv.status /\ ui'.nadra = srv.nadra /\ "getResults" \in CustomerLoads
    BY <1>0, <2>4 DEF CustomerLoads
  <2> QED BY <1>c, <1>d, <2>1, <2>2, <2>4, <2>5
<1>13. ASSUME NEW s \in Slot, KycRun(s) PROVE CustomerWith(calls', ui', srv')
  <2>1. smooth /\ Awaits(s, "runKyc") /\ srv' = srv
    BY <1>13 DEF KycRun, After, End, Chain
  <2>2. InFlight(s) /\ CustomerCallFits(calls[s], ui, srv) /\ calls[s].op = "runKyc"
    BY <1>b, <2>1
  <2>3. CASE Succeeded(s)
    <3>1. /\ Chain(s, "getResults", "none", {})
          /\ ui' = [ui EXCEPT !.status = calls[s].ans.data.status]
      BY <1>13, <2>3 DEF KycRun, After
    <3>2. ui'.status = srv.status /\ "getResults" \in CustomerLoads
      BY <1>0, <2>2, <2>3, <3>1 DEF CustomerCallFits, Succeeded, CustomerLoads
    <3> QED BY <1>d, <2>1, <2>2, <3>1, <3>2
  <2>4. CASE ~Succeeded(s)
    <3>1. End(s) /\ ui' = ui
      BY <1>13, <2>4 DEF KycRun, After
    <3>2. ui.status = srv.status /\ ui.nadra = srv.nadra
      BY <2>2, <2>4 DEF CustomerCallFits, CustomerLoads, Succeeded
    <3> QED BY <1>c, <2>1, <2>2, <3>1, <3>2
  <2> QED BY <2>3, <2>4
<1>14. ASSUME NEW s \in Slot, ResultsRead(s) PROVE CustomerWith(calls', ui', srv')
  <2>1. smooth /\ Awaits(s, "getResults") /\ srv' = srv
    BY <1>14 DEF ResultsRead, After, End
  <2>2. /\ InFlight(s) /\ CustomerCallFits(calls[s], ui, srv) /\ calls[s].op = "getResults"
        /\ Succeeded(s)
    BY <1>b, <2>1 DEF CustomerLoads
  <2>3. End(s) /\ ui' = [ui EXCEPT !.nadra = calls[s].ans.data.nadra]
    BY <1>14, <2>2 DEF ResultsRead, After
  <2>4. ui'.status = srv.status /\ ui'.nadra = srv.nadra
    BY <1>0, <2>2, <2>3 DEF CustomerCallFits, Succeeded
  <2> QED BY <1>c, <2>1, <2>2, <2>3, <2>4
<1> QED BY <1>1, <1>2, <1>3, <1>4, <1>5, <1>6, <1>7, <1>8, <1>9, <1>10, <1>11, <1>12, <1>13, <1>14
        DEF CustomerNext

-----------------------------------------------------------------------------
(* An ISAR.  Its status, shown and stored, and in the answers of its loads. *)
IsarOp == {"getIsar", "download", "submit", "approve", "reject", "file"}
IsarCall(c) ==
  /\ c.op \in IsarOp
  /\ c.op = "getIsar" /\ c.ans.state = "ok" => c.ans.data.status \in Reporting!IsarStatus

IsarTyped ==
  page = "isar" =>
    /\ {"isar", "error", "dialog", "rationale"} \subseteq DOMAIN ui
    /\ ui.isar.status \in Reporting!IsarStatus \cup {"none"}
    /\ {"status", "strs"} \subseteq DOMAIN srv /\ srv.status \in Reporting!IsarStatus
    /\ \A s \in Slot : calls[s] # Free => IsarCall(calls[s])

IsarCallFits(c, u, r) ==
  /\ c.op = "getIsar" => c.ans = Pending \/ c.ans = Ok(IsarResponse(r))
  /\ c.op = "download" => u.isar = IsarResponse(r)
  /\ c.op # "getIsar" /\ c.ans.state # "ok" => u.isar = IsarResponse(r)

IsarWith(cs, u, r) ==
  /\ NoneIn(cs) => u.isar = IsarResponse(r)
  /\ \A s \in Slot : cs[s] # Free => IsarCallFits(cs[s], u, r)

IsarKnown == page = "isar" /\ smooth => IsarWith(calls, ui, srv)

LEMMA IsarStarts ==
  ASSUME ConsoleInit, page = "isar" => IsarInit
  PROVE  IsarTyped /\ IsarKnown
<1> SUFFICES ASSUME page = "isar" PROVE IsarTyped /\ IsarWith(calls, ui, srv)
  BY DEF IsarTyped, IsarKnown
<1>1. IsarInit
  OBVIOUS
<1>2. OnlyIn(calls, Call("getIsar", "none", {"loading"}))
  BY <1>1, SmoothMounted DEF IsarInit
<1>3. /\ {"isar", "error", "dialog", "rationale"} \subseteq DOMAIN ui /\ ui.isar.status = "none"
      /\ {"status", "strs"} \subseteq DOMAIN srv /\ srv.status \in Reporting!IsarStatus
  BY <1>1 DEF IsarInit
<1> QED BY <1>2, <1>3, Fields
        DEF IsarTyped, IsarCall, IsarOp, IsarWith, IsarCallFits, OnlyIn, NoneIn

(* What the endpoints do. *)
LEMMA IsarReply ==
  ASSUME NEW s \in Slot, calls[s].op \in IsarOp,
         {"status", "strs"} \subseteq DOMAIN srv, srv.status \in Reporting!IsarStatus,
         NEW r \in IsarReplies(s)
  PROVE  /\ {"status", "strs"} \subseteq DOMAIN r.rows /\ r.rows.status \in Reporting!IsarStatus
         /\ calls[s].op = "getIsar" => r.rows = srv /\ r.ans = Ok(IsarResponse(srv))
         /\ calls[s].op = "download" => r.rows = srv
         /\ r.ans = Failed => r.rows = srv
         /\ r.ans = Failed \/ r.ans.state = "ok"
<1> USE DEF Reply
<1>1. CASE calls[s].op = "getIsar"
  <2>1. r = Reply(srv, Ok(IsarResponse(srv)))
    BY <1>1 DEF IsarReplies
  <2> QED BY <1>1, <2>1, AnswerFields
<1>2. CASE calls[s].op = "download"
  <2>1. r = Reply(srv, Ok("file"))
    BY <1>2 DEF IsarReplies
  <2> QED BY <1>2, <2>1, AnswerFields
<1>3. CASE calls[s].op \in {"submit", "approve", "reject", "file"}
  <2>1. r = Reply(srv, Failed) \/ r = Reply(IsarAfter(calls[s].op), Ok("isar"))
    BY <1>3 DEF IsarReplies, Refuse
  <2>2. /\ {"status", "strs"} \subseteq DOMAIN IsarAfter(calls[s].op)
        /\ IsarAfter(calls[s].op).status \in Reporting!IsarStatus
    BY <1>3 DEF IsarAfter, Reporting!IsarStatus
  <2>3. Ok("isar") # Failed
    BY DEF Ok, Failed
  <2> QED BY <1>3, <2>1, <2>2, <2>3, AnswerFields
<1> QED BY <1>1, <1>2, <1>3 DEF IsarOp

LEMMA IsarTypesStep ==
  ASSUME ConsoleInv, IsarTyped, IsarNext, page' = page
  PROVE  IsarTyped'
<1>0. page = "isar"
  BY DEF IsarNext
<1> DEFINE OkUi(u) == /\ {"isar", "error", "dialog", "rationale"} \subseteq DOMAIN u
                      /\ u.isar.status \in Reporting!IsarStatus \cup {"none"}
<1> DEFINE OkSrv(r) == {"status", "strs"} \subseteq DOMAIN r /\ r.status \in Reporting!IsarStatus
<1> DEFINE OkCalls(cs) == \A s \in Slot : cs[s] # Free => IsarCall(cs[s])
<1>a. OkUi(ui) /\ OkSrv(srv) /\ OkCalls(calls)
  BY <1>0 DEF IsarTyped
<1> SUFFICES OkUi(ui') /\ OkSrv(srv') /\ OkCalls(calls')
  BY <1>0 DEF IsarTyped
<1>b. \A op \in IsarOp : \A arg, flags : IsarCall(Call(op, arg, flags))
  BY Fields DEF IsarCall
<1>1. CASE OpenIsarDialog \/ CloseIsarDialog \/ TypeRationale
  BY <1>a, <1>1 DEF OpenIsarDialog, CloseIsarDialog, TypeRationale, NoCall
<1>2. ASSUME NEW op \in IsarOp, NEW keys, ConfirmIsar(op, keys)
      PROVE  OkUi(ui') /\ OkSrv(srv') /\ OkCalls(calls')
  <2>1. OkUi(ui') /\ srv' = srv
    BY <1>a, <1>2 DEF ConfirmIsar
  <2>2. \A t \in Slot : calls'[t] \in {calls[t], Call(op, keys, {"actionLoading"})}
    BY <1>2, EachSend DEF ConfirmIsar
  <2> QED BY <1>a, <1>b, <2>1, <2>2
<1>3. CASE handleSubmitForReview \/ handleApprove \/ handleReject \/ handleFileAsStr
  <2>1. \E op \in IsarOp : \E keys : ConfirmIsar(op, keys)
    BY <1>3 DEF handleSubmitForReview, handleApprove, handleReject, handleFileAsStr, IsarOp
  <2> HIDE DEF OkUi, OkSrv, OkCalls
  <2> QED BY <1>2, <2>1
<1>4. CASE handleDownload
  <2>1. PICK format \in {"pdf", "docx"} : Send("download", format, {"downloading"})
    BY <1>4 DEF handleDownload
  <2>2. \A t \in Slot : calls'[t] \in {calls[t], Call("download", format, {"downloading"})}
    BY <2>1, EachSend
  <2>3. ui' = ui /\ srv' = srv /\ "download" \in IsarOp
    BY <1>4 DEF handleDownload, IsarOp
  <2> QED BY <1>a, <1>b, <2>2, <2>3
<1>5. CASE IsarColleague
  <2>1. PICK op \in {"submit", "approve", "reject", "file"} : Others(IsarAfter(op))
    BY <1>5 DEF IsarColleague
  <2>2. OkSrv(srv')
    BY <1>a, <2>1 DEF Others, IsarAfter, Reporting!IsarStatus
  <2> QED BY <1>a, <2>1, <2>2 DEF Others
<1>6. ASSUME NEW s \in Slot, IsarActed(s) \/ Downloaded(s)
      PROVE  OkUi(ui') /\ OkSrv(srv') /\ OkCalls(calls')
  <2>1. OkUi(ui') /\ srv' = srv
    BY <1>a, <1>6 DEF IsarActed, Downloaded
  <2>2. Chain(s, "getIsar", "none", {"loading"}) \/ End(s)
    BY <1>6 DEF IsarActed, Downloaded
  <2>3. \A t \in Slot : \/ calls'[t] \in {calls[t], Free}
                        \/ \E f : calls'[t] = Call("getIsar", "none", f)
    BY <2>2, EachNext, EachEnd
  <2> QED BY <1>a, <1>b, <2>1, <2>3 DEF IsarOp
<1>7. ASSUME NEW s \in Slot, fetchIsar(s)
      PROVE  OkUi(ui') /\ OkSrv(srv') /\ OkCalls(calls')
  <2>1. Succeeded(s) => calls[s].ans.data.status \in Reporting!IsarStatus
    BY <1>7, <1>a, AwaitsIsInFlight DEF fetchIsar, InFlight, IsarCall, Awaits, Succeeded
  <2>2. OkUi(ui') /\ srv' = srv
    BY <1>a, <1>7, <2>1 DEF fetchIsar
  <2>3. OkCalls(calls')
    BY <1>7, <1>a, EachEnd DEF fetchIsar
  <2> QED BY <1>a, <2>2, <2>3
<1>8. ASSUME NEW s \in Slot, Serve(s, IsarReplies(s))
      PROVE  OkUi(ui') /\ OkSrv(srv') /\ OkCalls(calls')
  <2>1. InFlight(s) /\ ui' = ui
    BY <1>8, EachServe
  <2>2. PICK r \in IsarReplies(s) :
          /\ srv' = r.rows
          /\ \A t \in Slot : \/ calls'[t] = calls[t]
                             \/ /\ t = s /\ calls'[t].op = calls[t].op
                                /\ calls'[t].arg = calls[t].arg /\ calls'[t].ans = r.ans
    BY <1>8, EachServe
  <2>3. IsarCall(calls[s])
    BY <1>a, <2>1 DEF InFlight
  <2>4. /\ OkSrv(srv')
        /\ calls[s].op = "getIsar" => r.ans = Ok(IsarResponse(srv))
    BY <1>a, <2>2, <2>3, IsarReply DEF IsarCall
  <2>5. Ok(IsarResponse(srv)).data.status = srv.status
    BY DEF Ok, IsarResponse
  <2>6. \A t \in Slot : calls'[t] # Free => IsarCall(calls'[t])
    BY <1>a, <2>1, <2>2, <2>3, <2>4, <2>5 DEF IsarCall
  <2> QED BY <1>a, <2>1, <2>4, <2>6
<1>9. ASSUME NEW s \in Slot, Lose(s)
      PROVE  OkUi(ui') /\ OkSrv(srv') /\ OkCalls(calls')
  <2>1. /\ InFlight(s) /\ ui' = ui /\ srv' = srv
        /\ \A t \in Slot : \/ calls'[t] = calls[t]
                           \/ /\ t = s /\ calls'[t].op = calls[t].op
                              /\ calls'[t].arg = calls[t].arg /\ calls'[t].ans = Failed
    BY <1>9, EachLose
  <2>2. OkCalls(calls')
    BY <1>a, <2>1, AnswerFields DEF IsarCall, InFlight
  <2> QED BY <1>a, <2>1, <2>2
<1> QED BY <1>1, <1>3, <1>4, <1>5, <1>6, <1>7, <1>8, <1>9 DEF IsarNext

LEMMA IsarStep ==
  ASSUME ConsoleInv, IsarTyped, IsarKnown, IsarNext, page' = page
  PROVE  IsarKnown'
<1> SUFFICES ASSUME smooth' PROVE IsarWith(calls', ui', srv')
  BY DEF IsarKnown
<1>0. /\ page = "isar" /\ {"isar", "error", "dialog", "rationale"} \subseteq DOMAIN ui
      /\ {"status", "strs"} \subseteq DOMAIN srv /\ srv.status \in Reporting!IsarStatus
      /\ \A s \in Slot : InFlight(s) => calls[s].op \in IsarOp
  BY DEF IsarNext, IsarTyped, IsarCall, InFlight
<1>1. CASE OpenIsarDialog \/ CloseIsarDialog \/ TypeRationale
  <2>1. calls' = calls /\ smooth /\ srv' = srv /\ ui'.isar = ui.isar
    BY <1>0, <1>1 DEF OpenIsarDialog, CloseIsarDialog, TypeRationale, NoCall
  <2> QED BY <1>0, <2>1 DEF IsarKnown, IsarWith, IsarCallFits
<1>2. ASSUME NEW op, op # "getIsar", NEW arg, NEW flags, Send(op, arg, flags),
             srv' = srv, ui'.isar = ui.isar
      PROVE  IsarWith(calls', ui', srv')
  <2>1. smooth /\ NoneIn(calls) /\ OnlyIn(calls', Call(op, arg, flags))
    BY <1>2, SmoothSend
  <2> QED BY <1>0, <1>2, <2>1, Fields DEF IsarKnown, IsarWith, IsarCallFits, OnlyIn, NoneIn
<1>3. CASE handleSubmitForReview \/ handleApprove \/ handleReject \/ handleFileAsStr
  <2>1. PICK op \in {"submit", "approve", "reject", "file"}, keys \in SUBSET {"notes", "rationale"} :
          ConfirmIsar(op, keys)
    BY <1>3 DEF handleSubmitForReview, handleApprove, handleReject, handleFileAsStr
  <2>2. srv' = srv /\ ui'.isar = ui.isar /\ Send(op, keys, {"actionLoading"})
    BY <1>0, <2>1 DEF ConfirmIsar
  <2> QED BY <1>2, <2>2
<1>4. CASE handleDownload
  BY <1>2, <1>4 DEF handleDownload
<1>5. CASE IsarColleague
  BY <1>5 DEF IsarColleague, Others
<1>6. ASSUME NEW s \in Slot, Lose(s) PROVE FALSE
  BY <1>6 DEF Lose
<1>7. ASSUME NEW s \in Slot, IsarActed(s) PROVE IsarWith(calls', ui', srv')
  <2>1. /\ InFlight(s) /\ calls[s].op \in {"submit", "approve", "reject", "file"}
        /\ smooth /\ srv' = srv
    BY <1>7, AwaitsIsInFlight DEF IsarActed, Chain, End
  <2>2. CASE Succeeded(s)
    <3>1. OnlyIn(calls', Call("getIsar", "none", calls[s].flags \cup {"loading"}))
      BY <1>7, <2>1, <2>2, SmoothChain DEF IsarActed
    <3> QED BY <3>1, Fields DEF IsarWith, IsarCallFits, OnlyIn, NoneIn
  <2>3. CASE ~Succeeded(s)
    <3>1. NoneIn(calls') /\ ui' = ui
      BY <1>7, <2>1, <2>3, SmoothEnd DEF IsarActed
    <3> QED BY <1>0, <2>1, <2>3, <3>1
            DEF IsarKnown, IsarWith, IsarCallFits, InFlight, Succeeded, NoneIn
  <2> QED BY <2>2, <2>3
<1>8. ASSUME NEW s \in Slot, fetchIsar(s) \/ Downloaded(s) PROVE IsarWith(calls', ui', srv')
  <2>1. InFlight(s) /\ smooth /\ srv' = srv /\ NoneIn(calls')
    BY <1>8, AwaitsIsInFlight, SmoothEnd DEF fetchIsar, Downloaded
  <2>2. IsarCallFits(calls[s], ui, srv)
    BY <1>0, <2>1 DEF IsarKnown, IsarWith, InFlight
  <2>3. ui'.isar = IsarResponse(srv)
    <3>1. CASE fetchIsar(s)
      <4>1. calls[s].ans = Ok(IsarResponse(srv))
        BY <2>2, <3>1, Fields DEF IsarCallFits, fetchIsar, Awaits
      <4>2. Succeeded(s) /\ calls[s].ans.data = IsarResponse(srv)
        BY <4>1, AnswerFields DEF Succeeded
      <4> QED BY <1>0, <3>1, <4>2 DEF fetchIsar
    <3>2. CASE Downloaded(s)
      BY <2>2, <3>2 DEF IsarCallFits, Downloaded, Awaits
    <3> QED BY <1>8, <3>1, <3>2
  <2> QED BY <2>1, <2>3 DEF IsarWith, NoneIn
<1>9. ASSUME NEW s \in Slot, Serve(s, IsarReplies(s)) PROVE IsarWith(calls', ui', srv')
  <2> DEFINE c == calls'[s]
  <2>1. /\ smooth /\ InFlight(s) /\ calls[s].ans = Pending /\ ui' = ui
        /\ OnlyIn(calls', c) /\ c.op = calls[s].op
    BY <1>9, SmoothServe
  <2>2. PICK r \in IsarReplies(s) : srv' = r.rows /\ c.ans = r.ans
    BY <1>9, SmoothServe
  <2> HIDE DEF c
  <2>3. IsarCallFits(calls[s], ui, srv) /\ calls[s].op \in IsarOp
    BY <1>0, <2>1 DEF IsarKnown, IsarWith, InFlight
  <2>4. IsarCallFits(c, ui, srv')
    BY <1>0, <2>1, <2>2, <2>3, IsarReply, Fields, AnswerFields DEF IsarCallFits
  <2> QED BY <2>1, <2>4 DEF IsarWith, OnlyIn, NoneIn
<1> QED BY <1>1, <1>3, <1>4, <1>5, <1>6, <1>7, <1>8, <1>9 DEF IsarNext

-----------------------------------------------------------------------------
(* The STR reports, of which the backend has as many as it says. *)
StrsCallFits(c, u, r) ==
  /\ c.op = "listStrs" => c.ans = Pending \/ c.ans = Ok(StrReportResponse(r.strs))
  /\ c.op \in {"listStrs", "download", "generateStr"}
  /\ c.op # "listStrs" => Len(u.reports) = r.strs

StrsWith(cs, u, r) ==
  /\ {"reports", "error"} \subseteq DOMAIN u /\ r.strs \in Nat
  /\ NoneIn(cs) => Len(u.reports) = r.strs
  /\ \A s \in Slot : cs[s] # Free => StrsCallFits(cs[s], u, r)

StrsKnown == page = "strs" /\ smooth => StrsWith(calls, ui, srv)

LEMMA StrsStarts ==
  ASSUME ConsoleInit, page = "strs" => StrsInit
  PROVE  StrsKnown
<1> SUFFICES ASSUME page = "strs" PROVE StrsWith(calls, ui, srv)
  BY DEF StrsKnown
<1>1. StrsInit
  OBVIOUS
<1>2. OnlyIn(calls, Call("listStrs", "none", {"loading"}))
  BY <1>1, SmoothMounted DEF StrsInit
<1>3. {"reports", "error"} \subseteq DOMAIN ui /\ srv.strs \in Nat
  <2>1. PICK n \in 0 .. MaxStrs : srv = [strs |-> n]
    BY <1>1 DEF StrsInit
  <2>2. n \in Nat
    OBVIOUS
  <2> QED BY <1>1, <2>1, <2>2 DEF StrsInit
<1> QED BY <1>2, <1>3, Fields DEF StrsWith, StrsCallFits, OnlyIn, NoneIn

LEMMA StrsStep ==
  ASSUME ConsoleInv, StrsKnown, StrsNext, page' = page
  PROVE  StrsKnown'
<1> SUFFICES ASSUME smooth' PROVE StrsWith(calls', ui', srv')
  BY DEF StrsKnown
<1>0. page = "strs"
  BY DEF StrsNext
<1>1. CASE handleDownloadXml
  <2>1. PICK i \in DOMAIN DownloadingXml :
          SendShared("download", "xml", DownloadingXml[i], Range(DownloadingXml))
    BY <1>1 DEF handleDownloadXml
  <2>2. /\ smooth /\ NoneIn(calls)
        /\ OnlyIn(calls', Call("download", "xml", Range(DownloadingXml)))
    BY <2>1, SmoothSendShared
  <2>3. ui' = ui /\ srv' = srv
    BY <1>1 DEF handleDownloadXml
  <2> QED BY <1>0, <2>2, <2>3, Fields DEF StrsKnown, StrsWith, StrsCallFits, OnlyIn, NoneIn
<1>2. CASE SetGenerateOpen
  <2>1. /\ calls' = calls /\ smooth /\ srv' = srv
        /\ ui' = [ui EXCEPT !.generateOpen = ~@]
    BY <1>2 DEF SetGenerateOpen, NoCall
  <2> QED BY <1>0, <2>1 DEF StrsKnown, StrsWith, StrsCallFits
<1>3. CASE handleGenerateStr
  <2>1. /\ Send("generateStr", {}, {"generating"}) /\ srv' = srv
        /\ ui' = [ui EXCEPT !.generateOpen = FALSE]
    BY <1>3 DEF handleGenerateStr
  <2>2. smooth /\ NoneIn(calls) /\ OnlyIn(calls', Call("generateStr", {}, {"generating"}))
    BY <2>1, SmoothSend
  <2> QED BY <1>0, <2>1, <2>2, Fields DEF StrsKnown, StrsWith, StrsCallFits, OnlyIn, NoneIn
<1>4. CASE StrsColleague
  BY <1>4 DEF StrsColleague, Others
<1>5. ASSUME NEW s \in Slot, Lose(s) PROVE FALSE
  BY <1>5 DEF Lose
<1>6. ASSUME NEW s \in Slot, StrGenerated(s) PROVE StrsWith(calls', ui', srv')
  <2>1. InFlight(s) /\ calls[s].op = "generateStr" /\ smooth /\ srv' = srv /\ ui' = ui
    BY <1>6, AwaitsIsInFlight DEF StrGenerated, Awaits, Chain, End
  <2>2. StrsWith(calls, ui, srv) /\ StrsCallFits(calls[s], ui, srv)
    BY <1>0, <2>1 DEF StrsKnown, StrsWith, InFlight
  <2>3. CASE Succeeded(s)
    <3>1. OnlyIn(calls', Call("listStrs", "none", calls[s].flags \cup {"loading"}))
      BY <1>6, <2>1, <2>3, SmoothChain DEF StrGenerated
    <3> QED BY <2>1, <2>2, <3>1, Fields DEF StrsWith, StrsCallFits, OnlyIn, NoneIn
  <2>4. CASE ~Succeeded(s)
    <3>1. NoneIn(calls')
      BY <1>6, <2>1, <2>4, SmoothEnd DEF StrGenerated
    <3> QED BY <2>1, <2>2, <3>1 DEF StrsWith, StrsCallFits, NoneIn
  <2> QED BY <2>3, <2>4
<1>7. ASSUME NEW s \in Slot, fetchReports(s) \/ Downloaded(s) PROVE StrsWith(calls', ui', srv')
  <2>1. InFlight(s) /\ smooth /\ srv' = srv /\ NoneIn(calls')
    BY <1>7, AwaitsIsInFlight, SmoothEnd DEF fetchReports, Downloaded
  <2>2. StrsWith(calls, ui, srv) /\ StrsCallFits(calls[s], ui, srv)
    BY <1>0, <2>1 DEF StrsKnown, StrsWith, InFlight
  <2>3. CASE fetchReports(s)
    <3>1. calls[s].ans = Ok(StrReportResponse(srv.strs))
      BY <2>2, <2>3, Fields DEF StrsCallFits, fetchReports, Awaits
    <3>2. Succeeded(s) /\ calls[s].ans.data = StrReportResponse(srv.strs)
      BY <3>1, AnswerFields DEF Succeeded
    <3>3. ui' = [ui EXCEPT !.reports = StrReportResponse(srv.strs), !.error = FALSE]
      BY <2>3, <3>2 DEF fetchReports
    <3>4. ui'.reports = StrReportResponse(srv.strs) /\ {"reports", "error"} \subseteq DOMAIN ui'
      BY <2>2, <3>3 DEF StrsWith
    <3>5. Len(StrReportResponse(srv.strs)) = srv.strs
      BY <2>2 DEF StrReportResponse, StrsWith
    <3> QED BY <2>1, <2>2, <3>4, <3>5 DEF StrsWith, NoneIn
  <2>4. CASE Downloaded(s)
    BY <2>1, <2>2, <2>4 DEF StrsWith, StrsCallFits, Downloaded, Awaits, NoneIn
  <2> QED BY <1>7, <2>3, <2>4
<1>8. ASSUME NEW s \in Slot, Serve(s, StrsReplies(s)) PROVE StrsWith(calls', ui', srv')
  <2> DEFINE c == calls'[s]
  <2>1. /\ smooth /\ InFlight(s) /\ calls[s].ans = Pending /\ ui' = ui
        /\ OnlyIn(calls', c) /\ c.op = calls[s].op
    BY <1>8, SmoothServe
  <2>2. PICK r \in StrsReplies(s) : srv' = r.rows /\ c.ans = r.ans
    BY <1>8, SmoothServe
  <2> HIDE DEF c
  <2>3. StrsWith(calls, ui, srv) /\ StrsCallFits(calls[s], ui, srv)
    BY <1>0, <2>1 DEF StrsKnown, StrsWith, InFlight
  <2>4. srv' = srv /\ (c.op = "listStrs" => c.ans = Ok(StrReportResponse(srv.strs)))
    <3>1. PICK a : r = Reply(srv, a) /\ (c.op = "listStrs" => a = Ok(StrReportResponse(srv.strs)))
      BY <2>1, <2>3 DEF StrsReplies, StrsCallFits, Refuse
    <3> QED BY <2>2, <3>1 DEF Reply
  <2> QED BY <2>1, <2>3, <2>4 DEF StrsWith, StrsCallFits, OnlyIn, NoneIn
<1> QED BY <1>1, <1>2, <1>3, <1>4, <1>5, <1>6, <1>7, <1>8 DEF StrsNext

-----------------------------------------------------------------------------
(* Form A6: the statistics that are shown, or are on their way, are of the  *)
(* year that is chosen.                                                    *)
StatsOf(year) == IF year = "out of range" THEN "zero" ELSE year

FormA6CallFits(c, u, r) ==
  /\ c.op \in {"getStats", "download"}
  /\ c.op = "getStats" =>
       /\ c.arg = u.year
       /\ \/ c.ans = Pending
          \/ c.ans = Ok("numbers") /\ c.arg # "out of range"
          \/ c.ans = Failed /\ c.arg = "out of range"
  /\ c.op = "download" => u.statsOf = StatsOf(u.year)

FormA6With(cs, u, r) ==
  /\ {"year", "statsOf"} \subseteq DOMAIN u
  /\ NoneIn(cs) => u.statsOf = StatsOf(u.year)
  /\ \A s \in Slot : cs[s] # Free => FormA6CallFits(cs[s], u, r)

FormA6Known == page = "formA6" /\ smooth => FormA6With(calls, ui, srv)

LEMMA FormA6Starts ==
  ASSUME ConsoleInit, page = "formA6" => FormA6Init
  PROVE  FormA6Known
<1> SUFFICES ASSUME page = "formA6" PROVE FormA6With(calls, ui, srv)
  BY DEF FormA6Known
<1>1. FormA6Init
  OBVIOUS
<1>2. OnlyIn(calls, Call("getStats", "this year", {"loading"}))
  BY <1>1, SmoothMounted DEF FormA6Init
<1>3. {"year", "statsOf"} \subseteq DOMAIN ui /\ ui.year = "this year"
  BY <1>1 DEF FormA6Init
<1>4. FormA6CallFits(Call("getStats", "this year", {"loading"}), ui, srv)
  BY <1>3 DEF FormA6CallFits, Call, Pending
<1> QED BY <1>2, <1>3, <1>4 DEF FormA6With, OnlyIn, NoneIn

LEMMA FormA6Step ==
  ASSUME ConsoleInv, FormA6Known, FormA6Next, page' = page
  PROVE  FormA6Known'
<1> SUFFICES ASSUME smooth' PROVE FormA6With(calls', ui', srv')
  BY DEF FormA6Known
<1>0. page = "formA6"
  BY DEF FormA6Next
<1>1. CASE ChooseYear
  <2>1. PICK y \in Year : ui' = [ui EXCEPT !.year = y] /\ Send("getStats", y, {"loading"})
    BY <1>1 DEF ChooseYear
  <2>2. smooth /\ OnlyIn(calls', Call("getStats", y, {"loading"}))
    BY <2>1, SmoothSend
  <2>3. FormA6With(calls, ui, srv)
    BY <1>0, <2>2 DEF FormA6Known
  <2>4. ui'.year = y /\ {"year", "statsOf"} \subseteq DOMAIN ui'
    BY <2>1, <2>3 DEF FormA6With
  <2>5. FormA6CallFits(Call("getStats", y, {"loading"}), ui', srv')
    BY <2>4 DEF FormA6CallFits, Call, Pending
  <2> QED BY <2>2, <2>4, <2>5 DEF FormA6With, OnlyIn, NoneIn
<1>2. CASE handleDownload
  <2>1. PICK format \in {"pdf", "docx"} : Send("download", format, {"downloading"})
    BY <1>2 DEF handleDownload
  <2>2. smooth /\ NoneIn(calls) /\ OnlyIn(calls', Call("download", format, {"downloading"}))
    BY <2>1, SmoothSend
  <2>3. ui' = ui /\ srv' = srv
    BY <1>2 DEF handleDownload
  <2>4. FormA6With(calls, ui, srv)
    BY <1>0, <2>2 DEF FormA6Known
  <2>5. FormA6CallFits(Call("download", format, {"downloading"}), ui, srv)
    BY <2>2, <2>4 DEF FormA6With, FormA6CallFits, Call, Pending
  <2> QED BY <2>2, <2>3, <2>4, <2>5 DEF FormA6With, OnlyIn, NoneIn
<1>3. ASSUME NEW s \in Slot, Lose(s) PROVE FALSE
  BY <1>3 DEF Lose
<1>4. ASSUME NEW s \in Slot, fetchStats(s) \/ Downloaded(s) PROVE FormA6With(calls', ui', srv')
  <2>1. InFlight(s) /\ smooth /\ srv' = srv /\ NoneIn(calls')
    BY <1>4, AwaitsIsInFlight, SmoothEnd DEF fetchStats, Downloaded
  <2>2. FormA6With(calls, ui, srv) /\ FormA6CallFits(calls[s], ui, srv)
    BY <1>0, <2>1 DEF FormA6Known, FormA6With, InFlight
  <2>3. CASE fetchStats(s)
    <3>1. ui' = [ui EXCEPT !.statsOf = IF Succeeded(s) THEN calls[s].arg ELSE "zero"]
      BY <2>3 DEF fetchStats
    <3>a. /\ calls[s].arg = ui.year /\ calls[s].ans # Pending
          /\ \/ calls[s].ans = Ok("numbers") /\ ui.year # "out of range"
             \/ calls[s].ans = Failed /\ ui.year = "out of range"
      BY <2>2, <2>3, Fields DEF FormA6CallFits, fetchStats, Awaits
    <3>b. Succeeded(s) <=> calls[s].ans = Ok("numbers")
      BY <3>a, AnswerFields DEF Succeeded
    <3>c. Ok("numbers") # Failed
      BY AnswerFields
    <3>2. (IF Succeeded(s) THEN calls[s].arg ELSE "zero") = StatsOf(ui.year)
      BY <3>a, <3>b, <3>c DEF StatsOf
    <3>3. ui'.statsOf = StatsOf(ui'.year) /\ {"year", "statsOf"} \subseteq DOMAIN ui'
      BY <2>2, <3>1, <3>2 DEF FormA6With
    <3> QED BY <2>1, <3>3 DEF FormA6With, NoneIn
  <2>4. CASE Downloaded(s)
    BY <2>1, <2>2, <2>4 DEF FormA6With, FormA6CallFits, Downloaded, Awaits, NoneIn
  <2> QED BY <1>4, <2>3, <2>4
<1>5. ASSUME NEW s \in Slot, Serve(s, FormA6Replies(s)) PROVE FormA6With(calls', ui', srv')
  <2> DEFINE c == calls'[s]
  <2>1. /\ smooth /\ InFlight(s) /\ calls[s].ans = Pending /\ ui' = ui
        /\ OnlyIn(calls', c) /\ c.op = calls[s].op /\ c.arg = calls[s].arg
    BY <1>5, SmoothServe
  <2>2. PICK r \in FormA6Replies(s) : srv' = r.rows /\ c.ans = r.ans
    BY <1>5, SmoothServe
  <2> HIDE DEF c
  <2>3. FormA6With(calls, ui, srv) /\ FormA6CallFits(calls[s], ui, srv)
    BY <1>0, <2>1 DEF FormA6Known, FormA6With, InFlight
  <2>4. \/ c.arg = "out of range" /\ r = Reply(srv, Failed)
        \/ c.arg # "out of range" /\ r = Reply(srv, Ok("numbers"))
    BY <2>1, <2>2 DEF FormA6Replies, Refuse
  <2>a. Reply(srv, Failed).ans = Failed /\ Reply(srv, Ok("numbers")).ans = Ok("numbers")
    BY DEF Reply
  <2>5. FormA6CallFits(c, ui, srv')
    BY <2>1, <2>2, <2>3, <2>4, <2>a DEF FormA6CallFits
  <2> QED BY <2>1, <2>3, <2>5 DEF FormA6With, OnlyIn, NoneIn
<1> QED BY <1>1, <1>2, <1>3, <1>4, <1>5 DEF FormA6Next

-----------------------------------------------------------------------------
(* The forms of settings.  An input that nobody typed in shows what is      *)
(* stored, or what the call under way is about to store.                   *)
Touched == {"typed", "out of range"}
Plain(value) == IF value = "unset" THEN "default" ELSE value
FormShows(u, r) == u.loaded => \A k \in DOMAIN r : u.form[k] \in Touched \cup {Plain(r[k])}

FormCallFits(c, u, r) ==
  /\ c.op = "load" =>
       /\ c.ans = Pending \/ c.ans = Ok(r)
       /\ \A k \in DOMAIN r : u.form[k] \in Touched \cup {"default"}
  /\ c.op = "save" =>
       /\ FormShows(u, r)
       /\ \A k \in DOMAIN c.arg : c.arg[k] # "unset" /\ u.form[k] \in Touched \cup {c.arg[k]}
       /\ "flags" \in DOMAIN c.ans => c.ans.flags = r

FormWith(cs, u, r) ==
  /\ \A k \in DOMAIN r : u.form[k] # "unset"
  /\ NoneIn(cs) => FormShows(u, r)
  /\ \A s \in Slot : cs[s] # Free => FormCallFits(cs[s], u, r)

FormKnown == page \in DOMAIN FormPage /\ smooth => FormWith(calls, ui, srv)

LEMMA FormKnownStarts ==
  ASSUME ConsoleInit
  PROVE  FormKnown
<1> SUFFICES ASSUME page \in DOMAIN FormPage PROVE FormWith(calls, ui, srv)
  BY DEF FormKnown
<1>1. FormInit
  BY InitOfPage
<1>2. OnlyIn(calls, Call("load", <<>>, {"loading"}))
  BY <1>1, SmoothMounted DEF FormInit
<1>3. ui.form = [k \in Settings(page) |-> "default"] /\ DOMAIN srv = Settings(page)
  BY <1>1 DEF FormInit
<1> QED BY <1>2, <1>3, Fields DEF FormWith, FormCallFits, OnlyIn, NoneIn

(* What is kept by a save. *)
LEMMA FormOverwritten ==
  ASSUME NEW u, NEW r, NEW arg, FormShows(u, r), DOMAIN arg \subseteq DOMAIN r,
         \A k \in DOMAIN arg : arg[k] # "unset" /\ u.form[k] \in Touched \cup {arg[k]}
  PROVE  FormShows(u, Overwritten(r, arg))
BY DEF FormShows, Overwritten, Plain

LEMMA FormKnownStep ==
  ASSUME ConsoleInv, FormInv, FormKnown, FormNext, page' = page
  PROVE  FormKnown'
<1> SUFFICES ASSUME smooth' PROVE FormWith(calls', ui', srv')
  BY DEF FormKnown
<1>0. /\ page \in DOMAIN FormPage /\ DOMAIN srv = Settings(page)
      /\ ui = [form |-> ui.form, loaded |-> ui.loaded] /\ DOMAIN ui.form = Settings(page)
      /\ \A s \in Slot : FormCall(page, calls[s])
  BY DEF FormNext, FormInv, KeepableRows
<1>1. CASE EditSetting
  <2>1. PICK k \in DOMAIN ui.form, v \in Touched : ui' = [ui EXCEPT !.form[k] = v]
    BY <1>1 DEF EditSetting, Touched
  <2>2. smooth /\ calls' = calls /\ srv' = srv
    BY <1>1 DEF EditSetting, NoCall
  <2>3. ui'.loaded = ui.loaded /\ \A j \in DOMAIN srv : ui'.form[j] \in Touched \cup {ui.form[j]}
    BY <1>0, <2>1
  <2>4. FormWith(calls, ui, srv)
    BY <1>0, <2>2 DEF FormKnown
  <2>5. \A j \in DOMAIN srv : ui'.form[j] # "unset"
    BY <2>3, <2>4 DEF FormWith, Touched
  <2>6. FormShows(ui, srv) => FormShows(ui', srv)
    BY <2>3 DEF FormShows
  <2>7. ASSUME NEW s \in Slot, calls[s] # Free PROVE FormCallFits(calls[s], ui', srv)
    <3>1. FormCallFits(calls[s], ui, srv) /\ FormCall(page, calls[s])
      BY <1>0, <2>4, <2>7 DEF FormWith
    <3>2. calls[s].op = "save" => DOMAIN calls[s].arg \subseteq DOMAIN srv
      BY <1>0, <2>7, <3>1 DEF FormCall, KeepablePart
    <3> QED BY <2>3, <2>6, <3>1, <3>2 DEF FormCallFits
  <2> QED BY <2>2, <2>4, <2>5, <2>6, <2>7 DEF FormWith
<1>2. CASE SaveForm
  <2>1. PICK b \in DOMAIN FormPage[page].buttons :
          SendShared("save", [k \in Saves(page, b) |-> ui.form[k]], b,
                     DOMAIN FormPage[page].buttons)
    BY <1>2 DEF SaveForm
  <2> DEFINE c == Call("save", [k \in Saves(page, b) |-> ui.form[k]],
                       DOMAIN FormPage[page].buttons)
  <2>2. smooth /\ NoneIn(calls) /\ OnlyIn(calls', c)
    BY <2>1, SmoothSendShared
  <2>3. ui' = ui /\ srv' = srv
    BY <1>2 DEF SaveForm
  <2>4. FormWith(calls, ui, srv)
    BY <1>0, <2>2 DEF FormKnown
  <2>5. Saves(page, b) \subseteq DOMAIN srv
    BY <1>0 DEF Settings
  <2>6. FormCallFits(c, ui, srv)
    <3>1. c.op = "save" /\ c.arg = [k \in Saves(page, b) |-> ui.form[k]] /\ c.ans = Pending
      BY Fields
    <3>2. "flags" \notin DOMAIN c.ans
      BY <3>1, Fields
    <3> HIDE DEF c
    <3> QED BY <2>2, <2>4, <2>5, <3>1, <3>2 DEF FormCallFits, FormWith
  <2> HIDE DEF c
  <2> QED BY <2>2, <2>3, <2>4, <2>6 DEF FormWith, OnlyIn, NoneIn
<1>3. CASE FormColleague
  BY <1>3 DEF FormColleague, Others
<1>4. ASSUME NEW s \in Slot, Lose(s) PROVE FALSE
  BY <1>4 DEF Lose
<1>5. ASSUME NEW s \in Slot, FormLoaded(s) PROVE FormWith(calls', ui', srv')
  <2>1. InFlight(s) /\ smooth /\ srv' = srv /\ NoneIn(calls')
    BY <1>5, AwaitsIsInFlight, SmoothEnd DEF FormLoaded
  <2>2. FormWith(calls, ui, srv) /\ FormCallFits(calls[s], ui, srv)
    BY <1>0, <2>1 DEF FormKnown, FormWith, InFlight
  <2>3. calls[s].ans = Ok(srv)
    BY <1>5, <2>2, Fields DEF FormCallFits, FormLoaded, Awaits
  <2>4. Succeeded(s) /\ calls[s].ans.data = srv
    BY <2>3, AnswerFields DEF Succeeded
  <2>5. ui' = [form |-> [k \in DOMAIN ui.form |-> IF srv[k] = "unset" THEN ui.form[k] ELSE srv[k]],
               loaded |-> TRUE]
    BY <1>5, <2>4 DEF FormLoaded
  <2>6. \A k \in DOMAIN srv : ui'.form[k] = IF srv[k] = "unset" THEN ui.form[k] ELSE srv[k]
    BY <1>0, <2>5
  <2>7. \A k \in DOMAIN srv : ui.form[k] \in Touched \cup {"default"}
    BY <1>5, <2>2 DEF FormCallFits, FormLoaded, Awaits
  <2>8. FormShows(ui', srv) /\ \A k \in DOMAIN srv : ui'.form[k] # "unset"
    BY <2>6, <2>7 DEF FormShows, Plain, Touched
  <2> QED BY <2>1, <2>8 DEF FormWith, NoneIn
<1>6. ASSUME NEW s \in Slot, FormSaved(s) PROVE FormWith(calls', ui', srv')
  <2>1. InFlight(s) /\ smooth /\ srv' = srv /\ ui' = ui /\ NoneIn(calls')
    BY <1>6, AwaitsIsInFlight, SmoothEnd DEF FormSaved
  <2> QED BY <1>0, <1>6, <2>1 DEF FormKnown, FormWith, FormCallFits, FormSaved, Awaits, InFlight, NoneIn
(* The call under way is answered. *)
<1>7. ASSUME NEW s \in Slot, InFlight(s), smooth, ui' = ui, NEW ans,
             OnlyIn(calls', calls'[s]), calls'[s].op = calls[s].op, calls'[s].arg = calls[s].arg,
             calls'[s].ans = ans, DOMAIN srv' = DOMAIN srv,
             calls[s].op = "load" => srv' = srv /\ ans = Ok(srv),
             calls[s].op = "save" => /\ FormShows(ui, srv')
                                     /\ "flags" \in DOMAIN ans => ans.flags = srv'
      PROVE  FormWith(calls', ui', srv')
  <2>1. FormWith(calls, ui, srv) /\ FormCallFits(calls[s], ui, srv)
    BY <1>0, <1>7 DEF FormKnown, FormWith, InFlight
  <2>2. FormCallFits(calls'[s], ui, srv')
    BY <1>7, <2>1 DEF FormCallFits
  <2> QED BY <1>7, <2>1, <2>2 DEF FormWith, OnlyIn, NoneIn
<1>8. ASSUME NEW s \in Slot, NEW ans, InFlight(s), smooth,
             calls' = [calls EXCEPT ![s].ans = ans]
      PROVE  /\ OnlyIn(calls', calls'[s]) /\ calls'[s].op = calls[s].op
             /\ calls'[s].arg = calls[s].arg /\ calls'[s].ans = ans
  <2>1. /\ calls'[s].op = calls[s].op /\ calls'[s].arg = calls[s].arg /\ calls'[s].ans = ans
        /\ \A t \in Slot \ {s} : calls'[t] = calls[t]
    BY <1>8, AnsweredCall DEF ConsoleInv
  <2>2. calls[s].op # "free"
    BY <1>0, <1>8 DEF FormCall, InFlight
  <2>3. calls'[s] # Free
    BY <2>1, <2>2 DEF Free
  <2>4. \A t \in Slot \ {s} : calls'[t] = Free
    BY <1>8, <2>1, AloneIsFree
  <2> QED BY <2>1, <2>3, <2>4 DEF OnlyIn
<1>a. ASSUME NEW s \in Slot, InFlight(s), calls[s].op = "save", smooth
      PROVE  /\ FormShows(ui, srv)
             /\ FormShows(ui, Overwritten(srv, calls[s].arg))
             /\ DOMAIN Overwritten(srv, calls[s].arg) = DOMAIN srv
             /\ "flags" \in DOMAIN calls[s].ans => calls[s].ans.flags = srv
  <2>1. FormCallFits(calls[s], ui, srv) /\ KeepablePart(page, calls[s].arg)
    BY <1>0, <1>a DEF FormKnown, FormWith, InFlight, FormCall
  <2>2. DOMAIN calls[s].arg \subseteq DOMAIN srv
    BY <1>0, <2>1 DEF KeepablePart
  <2> QED BY <1>a, <2>1, <2>2, FormOverwritten DEF FormCallFits, Overwritten
<1>9. ASSUME NEW s \in Slot, ReadTenant(s) PROVE FormWith(calls', ui', srv')
  <2> DEFINE read == [state |-> "pending", flags |-> srv]
  <2>1. /\ InFlight(s) /\ calls[s].op = "save" /\ smooth /\ srv' = srv /\ ui' = ui
        /\ calls' = [calls EXCEPT ![s].ans = read]
    BY <1>9 DEF ReadTenant
  <2>2. read.flags = srv
    OBVIOUS
  <2> HIDE DEF read
  <2>3. /\ OnlyIn(calls', calls'[s]) /\ calls'[s].op = calls[s].op
        /\ calls'[s].arg = calls[s].arg /\ calls'[s].ans = read
    BY <1>8, <2>1
  <2>4. FormShows(ui, srv)
    BY <1>a, <2>1
  <2> QED BY <1>7, <2>1, <2>2, <2>3, <2>4
<1>10. ASSUME NEW s \in Slot, CommitTenant(s) PROVE FormWith(calls', ui', srv')
  <2>1. /\ InFlight(s) /\ smooth /\ ui' = ui /\ "flags" \in DOMAIN calls[s].ans
        /\ srv' = Overwritten(calls[s].ans.flags, calls[s].arg)
        /\ calls' = [calls EXCEPT ![s].ans = Ok("saved")]
    BY <1>10 DEF CommitTenant
  <2>2. calls[s].op = "save"
    BY <1>0, <2>1 DEF FormCall, InFlight
  <2>3. "flags" \notin DOMAIN Ok("saved")
    BY AnswerFields
  <2> QED BY <1>7, <1>8, <1>a, <2>1, <2>2, <2>3
<1>11. ASSUME NEW s \in Slot, Serve(s, FormReplies(s)) PROVE FormWith(calls', ui', srv')
  <2>1. /\ smooth /\ InFlight(s) /\ ui' = ui
        /\ OnlyIn(calls', calls'[s]) /\ calls'[s].op = calls[s].op /\ calls'[s].arg = calls[s].arg
    BY <1>11, SmoothServe
  <2>2. PICK r \in FormReplies(s) : srv' = r.rows /\ calls'[s].ans = r.ans
    BY <1>11, SmoothServe
  <2>3. CASE calls[s].op = "load"
    <3>1. srv' = srv /\ r.ans = Ok(srv)
      BY <2>2, <2>3 DEF FormReplies, Reply
    <3> QED BY <1>7, <2>1, <2>2, <2>3, <3>1
  <2>4. CASE calls[s].op = "save"
    <3>1. srv' = Overwritten(srv, calls[s].arg) /\ r.ans = Ok("saved")
      BY <2>2, <2>4 DEF FormReplies, Reply
    <3>2. "flags" \notin DOMAIN Ok("saved")
      BY AnswerFields
    <3> QED BY <1>7, <1>a, <2>1, <2>2, <2>4, <3>1, <3>2
  <2>5. calls[s].op \in {"load", "save"}
    BY <1>0, <2>1 DEF FormCall, InFlight
  <2> QED BY <2>3, <2>4, <2>5
<1> QED BY <1>1, <1>2, <1>3, <1>4, <1>5, <1>6, <1>9, <1>10, <1>11 DEF FormNext

-----------------------------------------------------------------------------
(* Advanced settings: a save that is not yet answered found the groups up   *)
(* to date, and the load that follows it brings them up to date again.      *)
AdvancedCallFits(c, u, r) ==
  /\ c.op \in {"load", "save"}
  /\ c.op = "load" => c.ans = Pending \/ c.ans = Ok(r)
  /\ c.op = "save" => (c.ans = Pending /\ u.groups = r) \/ c.ans.state = "ok"

AdvancedWith(cs, u, r) ==
  /\ "groups" \in DOMAIN u
  /\ NoneIn(cs) => u.groups = r
  /\ \A s \in Slot : cs[s] # Free => AdvancedCallFits(cs[s], u, r)

AdvancedKnown == page = "advanced" /\ smooth => AdvancedWith(calls, ui, srv)

LEMMA AdvancedStarts ==
  ASSUME ConsoleInit, page = "advanced" => AdvancedInit
  PROVE  AdvancedKnown
<1> SUFFICES ASSUME page = "advanced" PROVE AdvancedWith(calls, ui, srv)
  BY DEF AdvancedKnown
<1>1. AdvancedInit
  OBVIOUS
<1>2. OnlyIn(calls, Call("load", "none", {"loading"}))
  BY <1>1, SmoothMounted DEF AdvancedInit
<1>3. "groups" \in DOMAIN ui
  BY <1>1 DEF AdvancedInit
<1> QED BY <1>2, <1>3, Fields DEF AdvancedWith, AdvancedCallFits, OnlyIn, NoneIn

LEMMA AdvancedStep ==
  ASSUME ConsoleInv, AdvancedKnown, AdvancedNext, page' = page
  PROVE  AdvancedKnown'
<1> SUFFICES ASSUME smooth' PROVE AdvancedWith(calls', ui', srv')
  BY DEF AdvancedKnown
<1>0. page = "advanced"
  BY DEF AdvancedNext
<1>1. CASE toggleExpand \/ TypeRaw \/ Discard
  <2>1. calls' = calls /\ smooth /\ srv' = srv
    BY <1>1 DEF toggleExpand, TypeRaw, Discard, NoCall
  <2>2. AdvancedWith(calls, ui, srv)
    BY <1>0, <2>1 DEF AdvancedKnown
  <2>3. "groups" \in DOMAIN ui' /\ ui'.groups = ui.groups
    BY <1>1, <2>2 DEF toggleExpand, TypeRaw, Discard, AdvancedWith
  <2> QED BY <2>1, <2>2, <2>3 DEF AdvancedWith, AdvancedCallFits
<1>2. CASE SaveRaw
  <2>1. Send("save", ui.editing, {"saving"}) /\ srv' = srv /\ ui' = ui
    BY <1>2 DEF SaveRaw
  <2>2. smooth /\ NoneIn(calls) /\ OnlyIn(calls', Call("save", ui.editing, {"saving"}))
    BY <2>1, SmoothSend
  <2> QED BY <1>0, <2>1, <2>2, Fields
          DEF AdvancedKnown, AdvancedWith, AdvancedCallFits, OnlyIn, NoneIn
<1>3. CASE AdvancedColleague
  BY <1>3 DEF AdvancedColleague, Others
<1>4. ASSUME NEW s \in Slot, Lose(s) PROVE FALSE
  BY <1>4 DEF Lose
<1>5. ASSUME NEW s \in Slot, AdvancedLoaded(s) PROVE AdvancedWith(calls', ui', srv')
  <2>1. InFlight(s) /\ smooth /\ srv' = srv /\ NoneIn(calls')
    BY <1>5, AwaitsIsInFlight, SmoothEnd DEF AdvancedLoaded
  <2>2. AdvancedWith(calls, ui, srv) /\ AdvancedCallFits(calls[s], ui, srv)
    BY <1>0, <2>1 DEF AdvancedKnown, AdvancedWith, InFlight
  <2>3. calls[s].ans = Ok(srv)
    BY <1>5, <2>2, Fields DEF AdvancedCallFits, AdvancedLoaded, Awaits
  <2>4. Succeeded(s) /\ calls[s].ans.data = srv
    BY <2>3, AnswerFields DEF Succeeded
  <2>5. "groups" \in DOMAIN ui' /\ ui'.groups = srv
    BY <1>5, <2>2, <2>4 DEF AdvancedLoaded, AdvancedWith
  <2> QED BY <2>1, <2>5 DEF AdvancedWith, NoneIn
<1>6. ASSUME NEW s \in Slot, RawSaved(s) PROVE AdvancedWith(calls', ui', srv')
  <2>1. InFlight(s) /\ smooth /\ srv' = srv
    BY <1>6, AwaitsIsInFlight DEF RawSaved, EndThen, End
  <2>2. AdvancedWith(calls, ui, srv) /\ AdvancedCallFits(calls[s], ui, srv)
    BY <1>0, <2>1 DEF AdvancedKnown, AdvancedWith, InFlight
  <2>3. Succeeded(s)
    BY <1>6, <2>2, Fields DEF AdvancedCallFits, RawSaved, Awaits, Succeeded
  <2>4. OnlyIn(calls', Call("load", "none", {}))
    BY <1>6, <2>1, <2>3, SmoothEndThen DEF RawSaved
  <2>5. "groups" \in DOMAIN ui'
    BY <1>6, <2>2, <2>3 DEF RawSaved, AdvancedWith
  <2> QED BY <2>4, <2>5, Fields DEF AdvancedWith, AdvancedCallFits, OnlyIn, NoneIn
<1>7. ASSUME NEW s \in Slot, Serve(s, AdvancedReplies(s)) PROVE AdvancedWith(calls', ui', srv')
  <2> DEFINE c == calls'[s]
  <2>1. /\ smooth /\ InFlight(s) /\ ui' = ui
        /\ OnlyIn(calls', c) /\ c.op = calls[s].op
    BY <1>7, SmoothServe
  <2>2. PICK r \in AdvancedReplies(s) : srv' = r.rows /\ c.ans = r.ans
    BY <1>7, SmoothServe
  <2> HIDE DEF c
  <2>3. AdvancedWith(calls, ui, srv) /\ AdvancedCallFits(calls[s], ui, srv)
    BY <1>0, <2>1 DEF AdvancedKnown, AdvancedWith, InFlight
  <2>4. AdvancedCallFits(c, ui, srv')
    <3>1. CASE c.op = "load"
      <4>1. srv' = srv /\ c.ans = Ok(srv)
        BY <2>1, <2>2, <3>1 DEF AdvancedReplies, Reply
      <4> QED BY <3>1, <4>1 DEF AdvancedCallFits
    <3>2. CASE c.op = "save"
      <4>1. c.ans = Ok("saved")
        BY <2>1, <2>2, <3>2 DEF AdvancedReplies, Reply
      <4> QED BY <3>2, <4>1, AnswerFields DEF AdvancedCallFits
    <3> QED BY <2>1, <2>3, <3>1, <3>2 DEF AdvancedCallFits
  <2> QED BY <2>1, <2>3, <2>4 DEF AdvancedWith, OnlyIn, NoneIn
<1> QED BY <1>1, <1>2, <1>3, <1>4, <1>5, <1>6, <1>7 DEF AdvancedNext

-----------------------------------------------------------------------------
(* The lists with dialogs, but for the coupons, whose deletion always fails.*)
EditorOp == {"create", "edit", "delete"}

EditorCallFits(p, c, u, r) ==
  /\ c.op \in EditorOp \cup {"list"}
  /\ c.op = "list" => c.ans = Pending \/ c.ans = Ok(r)
  /\ c.op # "list" /\ c.ans.state # "ok" => u.rows = r
  /\ c.op = "delete" /\ p = "rules" /\ c.ans.state = "ok" =>
       r = Restrict(u.rows, DOMAIN u.rows \ {c.arg.row})

EditorWith(p, cs, u, r) ==
  /\ u = [rows |-> u.rows, dialog |-> u.dialog, row |-> u.row, form |-> u.form]
  /\ u.dialog \in EditorOp \cup {"none"}
  /\ NoneIn(cs) => u.rows = r
  /\ \A s \in Slot : cs[s] # Free => EditorCallFits(p, cs[s], u, r)

EditorKnown ==
  page \in DOMAIN EditorPage \ {"coupons"} /\ smooth => EditorWith(page, calls, ui, srv)

LEMMA EditorStarts ==
  ASSUME ConsoleInit, page \in DOMAIN EditorPage => EditorInit
  PROVE  EditorKnown
<1> SUFFICES ASSUME page \in DOMAIN EditorPage PROVE EditorWith(page, calls, ui, srv)
  BY DEF EditorKnown
<1>1. EditorInit
  OBVIOUS
<1>2. OnlyIn(calls, Call("list", <<>>, {"loading"}))
  BY <1>1, SmoothMounted DEF EditorInit
<1>3. ui = [rows |-> <<>>, dialog |-> "none", row |-> "none", form |-> {}]
  BY <1>1 DEF EditorInit
<1> QED BY <1>2, <1>3, Fields DEF EditorWith, EditorCallFits, OnlyIn, NoneIn

(* The operations of every list. *)
LEMMA EditorOps ==
  ASSUME page \in DOMAIN EditorPage
  PROVE  DOMAIN Ed.flags \subseteq EditorOp
<1> USE DEF Ed, EditorPage, Editor, EditorOp
<1>1. CASE page = "plans"
  BY <1>1 DEF PlansTab
<1>2. CASE page = "coupons"
  BY <1>2 DEF CouponsTab
<1>3. CASE page = "subscriptions"
  BY <1>3 DEF SubscriptionsTab
<1>4. CASE page = "rules"
  BY <1>4 DEF SettingsMonitoringPage
<1>5. CASE page = "team"
  BY <1>5 DEF SettingsTeamPage
<1> QED BY <1>1, <1>2, <1>3, <1>4, <1>5

LEMMA EditorStep ==
  ASSUME ConsoleInv, EditorKnown, EditorNext, page' = page
  PROVE  EditorKnown'
<1> SUFFICES ASSUME smooth', page # "coupons" PROVE EditorWith(page, calls', ui', srv')
  BY DEF EditorKnown
<1>0. page \in DOMAIN EditorPage \ {"coupons"}
  BY DEF EditorNext
<1> USE DEF EditorOp
<1>1. CASE OpenEditor \/ TypeInEditor \/ CloseEditor
  <2>1. calls' = calls /\ smooth /\ srv' = srv
    BY <1>1 DEF OpenEditor, TypeInEditor, CloseEditor, NoCall
  <2>2. EditorWith(page, calls, ui, srv)
    BY <1>0, <2>1 DEF EditorKnown
  <2>3. /\ ui' = [rows |-> ui'.rows, dialog |-> ui'.dialog, row |-> ui'.row, form |-> ui'.form]
        /\ ui'.dialog \in EditorOp \cup {"none"} /\ ui'.rows = ui.rows
    <3>1. CASE OpenEditor
      BY <1>0, <2>2, <3>1, EditorOps DEF OpenEditor, EditorWith
    <3>2. CASE TypeInEditor \/ CloseEditor
      BY <2>2, <3>2 DEF TypeInEditor, CloseEditor, EditorClosed, EditorWith
    <3> QED BY <1>1, <3>1, <3>2
  <2> QED BY <2>1, <2>2, <2>3 DEF EditorWith, EditorCallFits
<1>2. CASE SubmitEditor
  <2>1. PICK arg, flags : Send(ui.dialog, arg, flags)
    BY <1>2 DEF SubmitEditor
  <2>2. smooth /\ NoneIn(calls) /\ OnlyIn(calls', Call(ui.dialog, arg, flags))
    BY <2>1, SmoothSend
  <2>3. EditorWith(page, calls, ui, srv) /\ ui.dialog \in EditorOp /\ srv' = srv
    BY <1>0, <1>2, <2>2 DEF EditorKnown, EditorWith, SubmitEditor
  <2>4. /\ ui' = [rows |-> ui'.rows, dialog |-> ui'.dialog, row |-> ui'.row, form |-> ui'.form]
        /\ ui'.dialog \in EditorOp \cup {"none"} /\ ui'.rows = ui.rows
    BY <1>2, <2>3 DEF SubmitEditor, EditorClosed, EditorWith
  <2>5. EditorCallFits(page, Call(ui.dialog, arg, flags), ui', srv')
    BY <2>2, <2>3, <2>4, Fields DEF EditorWith, EditorCallFits, Call, Pending
  <2> QED BY <2>2, <2>4, <2>5 DEF EditorWith, OnlyIn, NoneIn
<1>3. CASE RefreshRows
  <2>1. Send("list", <<>>, {"loading"}) /\ ui' = ui
    BY <1>3 DEF RefreshRows
  <2>2. smooth /\ OnlyIn(calls', Call("list", <<>>, {"loading"}))
    BY <2>1, SmoothSend
  <2> QED BY <1>0, <2>1, <2>2, Fields DEF EditorKnown, EditorWith, EditorCallFits, OnlyIn, NoneIn
<1>4. CASE EditorColleague
  BY <1>4 DEF EditorColleague, Others
<1>5. ASSUME NEW s \in Slot, Lose(s) PROVE FALSE
  BY <1>5 DEF Lose
<1>6. ASSUME NEW s \in Slot, RowsArrived(s) PROVE EditorWith(page, calls', ui', srv')
  <2>1. InFlight(s) /\ smooth /\ srv' = srv /\ NoneIn(calls')
    BY <1>6, AwaitsIsInFlight, SmoothEnd DEF RowsArrived
  <2>2. EditorWith(page, calls, ui, srv) /\ EditorCallFits(page, calls[s], ui, srv)
    BY <1>0, <2>1 DEF EditorKnown, EditorWith, InFlight
  <2>3. calls[s].ans = Ok(srv)
    BY <1>6, <2>2, Fields DEF EditorCallFits, RowsArrived, Awaits
  <2>4. Succeeded(s) /\ calls[s].ans.data = srv
    BY <2>3, AnswerFields DEF Succeeded
  <2>5. /\ ui' = [rows |-> ui'.rows, dialog |-> ui'.dialog, row |-> ui'.row, form |-> ui'.form]
        /\ ui'.dialog = ui.dialog /\ ui'.rows = srv
    BY <1>6, <2>2, <2>4 DEF RowsArrived, EditorWith
  <2> QED BY <2>1, <2>2, <2>5 DEF EditorWith, NoneIn
<1>7. ASSUME NEW s \in Slot, EditorAnswered(s) PROVE EditorWith(page, calls', ui', srv')
  <2>1. InFlight(s) /\ smooth /\ srv' = srv /\ calls[s].op \in EditorOp
    BY <1>7, AwaitsIsInFlight DEF EditorAnswered, EndThen, End, Chain
  <2>2. EditorWith(page, calls, ui, srv) /\ EditorCallFits(page, calls[s], ui, srv)
    BY <1>0, <2>1 DEF EditorKnown, EditorWith, InFlight
  <2>3. CASE ~Succeeded(s)
    <3>1. ui' = ui /\ NoneIn(calls')
      BY <1>7, <2>1, <2>3, SmoothEnd DEF EditorAnswered
    <3> QED BY <2>1, <2>2, <2>3, <3>1 DEF EditorWith, EditorCallFits, Succeeded, NoneIn
  <2>4. CASE Succeeded(s)
    <3> DEFINE closed == IF ui.dialog \in ClosedBy(calls[s].op) THEN EditorClosed(ui) ELSE ui
    <3>1. /\ closed = [rows |-> closed.rows, dialog |-> closed.dialog,
                       row |-> closed.row, form |-> closed.form]
          /\ closed.dialog \in EditorOp \cup {"none"} /\ closed.rows = ui.rows
      BY <2>2 DEF EditorWith, EditorClosed
    <3>2. CASE page = "rules" /\ calls[s].op = "delete"
      <4>1. ui' = [closed EXCEPT !.rows = Restrict(@, DOMAIN @ \ {calls[s].arg.row})] /\ End(s)
        BY <1>7, <2>4, <3>2 DEF EditorAnswered
      <4> HIDE DEF closed
      <4>2. NoneIn(calls')
        BY <2>1, <4>1, SmoothEnd
      <4>3. srv = Restrict(ui.rows, DOMAIN ui.rows \ {calls[s].arg.row})
        BY <2>2, <2>4, <3>2 DEF EditorCallFits, Succeeded
      <4>4. /\ ui' = [rows |-> ui'.rows, dialog |-> ui'.dialog, row |-> ui'.row, form |-> ui'.form]
            /\ ui'.dialog = closed.dialog
            /\ ui'.rows = Restrict(closed.rows, DOMAIN closed.rows \ {calls[s].arg.row})
        BY <3>1, <4>1
      <4> QED BY <2>1, <3>1, <4>2, <4>3, <4>4 DEF EditorWith, NoneIn
    <3>3. CASE ~(page = "rules" /\ calls[s].op = "delete")
      <4>1. /\ ui' = closed
            /\ Chain(s, "list", <<>>, {}) \/ EndThen(s, "list", <<>>, {"loading"})
        BY <1>7, <2>4, <3>3 DEF EditorAnswered
      <4> HIDE DEF closed
      <4>2. PICK f : OnlyIn(calls', Call("list", <<>>, f))
        BY <2>1, <4>1, SmoothChain, SmoothEndThen
      <4> QED BY <3>1, <4>1, <4>2, Fields DEF EditorWith, EditorCallFits, OnlyIn, NoneIn
    <3> QED BY <3>2, <3>3
  <2> QED BY <2>3, <2>4
<1>8. ASSUME NEW s \in Slot, Serve(s, EditorReplies(s)) PROVE EditorWith(page, calls', ui', srv')
  <2> DEFINE c == calls'[s]
  <2>1. /\ smooth /\ InFlight(s) /\ ui' = ui /\ calls[s].ans = Pending
        /\ OnlyIn(calls', c) /\ c.op = calls[s].op /\ c.arg = calls[s].arg
    BY <1>8, SmoothServe
  <2>2. PICK r \in EditorReplies(s) : srv' = r.rows /\ c.ans = r.ans
    BY <1>8, SmoothServe
  <2> HIDE DEF c
  <2>3. EditorWith(page, calls, ui, srv) /\ EditorCallFits(page, calls[s], ui, srv)
    BY <1>0, <2>1 DEF EditorKnown, EditorWith, InFlight
  <2>4. calls[s].op # "list" => ui.rows = srv
    BY <2>1, <2>3, Fields DEF EditorCallFits
  <2>5. EditorCallFits(page, c, ui, srv')
    <3>1. CASE c.op = "list"
      <4>1. r = Reply(srv, Ok(srv))
        BY <2>1, <2>2, <3>1 DEF EditorReplies
      <4> QED BY <2>2, <3>1, <4>1 DEF EditorCallFits, Reply
    <3>2. CASE c.op # "list" /\ r = Reply(srv, Failed)
      BY <2>1, <2>2, <2>3, <2>4, <3>2, AnswerFields DEF EditorCallFits, Reply
    <3>3. CASE c.op \in {"create", "edit"} /\ r # Reply(srv, Failed)
      <4>1. PICK rows, data : r = Reply(rows, Ok(data))
        BY <2>1, <2>2, <3>3 DEF EditorReplies, Refuse
      <4> QED BY <2>2, <3>3, <4>1, AnswerFields DEF EditorCallFits, Reply
    <3>4. CASE c.op = "delete" /\ r # Reply(srv, Failed)
      <4>1. r = Reply(Restrict(srv, DOMAIN srv \ {c.arg.row}), Ok("deleted"))
        BY <1>0, <2>1, <2>2, <3>4 DEF EditorReplies, Refuse
      <4>2. srv' = Restrict(srv, DOMAIN srv \ {c.arg.row}) /\ c.ans = Ok("deleted")
        BY <2>2, <4>1 DEF Reply
      <4> QED BY <2>1, <2>4, <3>4, <4>2, AnswerFields DEF EditorCallFits
    <3> QED BY <2>1, <2>3, <3>1, <3>2, <3>3, <3>4 DEF EditorCallFits
  <2> QED BY <2>1, <2>3, <2>5 DEF EditorWith, OnlyIn, NoneIn
<1> QED BY <1>1, <1>2, <1>3, <1>4, <1>5, <1>6, <1>7, <1>8 DEF EditorNext

-----------------------------------------------------------------------------
(* Applications: a review that is not yet served found the table up to      *)
(* date, and the load that follows it brings it up to date again.           *)
ApplicationsCallFits(c, u, r) ==
  /\ c.op \in {"list", "review"}
  /\ c.op = "list" => c.ans = Pending \/ c.ans = Ok(r.status)
  /\ c.op = "review" => (c.ans = Pending /\ u.rows = r.status) \/ c.ans.state = "ok"

ApplicationsWith(cs, u, r) ==
  /\ {"rows", "error", "review", "action", "createTenant"} \subseteq DOMAIN u
  /\ NoneIn(cs) => u.rows = r.status
  /\ \A s \in Slot : cs[s] # Free => ApplicationsCallFits(cs[s], u, r)

ApplicationsKnown == page = "applications" /\ smooth => ApplicationsWith(calls, ui, srv)

LEMMA ApplicationsKnownStarts ==
  ASSUME ConsoleInit
  PROVE  ApplicationsKnown
<1> SUFFICES ASSUME page = "applications" PROVE ApplicationsWith(calls, ui, srv)
  BY DEF ApplicationsKnown
<1>1. ApplicationsInit
  BY InitOfPage
<1>2. OnlyIn(calls, Call("list", "none", {"loading"}))
  BY <1>1, SmoothMounted DEF ApplicationsInit
<1>3. {"rows", "error", "review", "action", "createTenant"} \subseteq DOMAIN ui
  BY <1>1 DEF ApplicationsInit
<1> QED BY <1>2, <1>3, Fields DEF ApplicationsWith, ApplicationsCallFits, OnlyIn, NoneIn

LEMMA ApplicationsKnownStep ==
  ASSUME ConsoleInv, ApplicationsKnown, ApplicationsNext, page' = page
  PROVE  ApplicationsKnown'
<1> SUFFICES ASSUME smooth' PROVE ApplicationsWith(calls', ui', srv')
  BY DEF ApplicationsKnown
<1>0. page = "applications"
  BY DEF ApplicationsNext
<1>1. CASE openReviewDialog \/ ToggleCreateTenant \/ closeReviewDialog
  <2>1. calls' = calls /\ smooth /\ srv' = srv
    BY <1>1 DEF openReviewDialog, ToggleCreateTenant, closeReviewDialog, NoCall
  <2>2. ApplicationsWith(calls, ui, srv)
    BY <1>0, <2>1 DEF ApplicationsKnown
  <2>3. DOMAIN ui' = DOMAIN ui /\ ui'.rows = ui.rows
    BY <1>1, <2>2 DEF openReviewDialog, ToggleCreateTenant, closeReviewDialog, Closed,
                      ApplicationsWith
  <2> QED BY <2>1, <2>2, <2>3 DEF ApplicationsWith, ApplicationsCallFits
<1>2. CASE handleReviewSubmit
  <2>1. PICK arg : Send("review", arg, {"submitting"})
    BY <1>2 DEF handleReviewSubmit
  <2>2. smooth /\ NoneIn(calls) /\ OnlyIn(calls', Call("review", arg, {"submitting"}))
    BY <2>1, SmoothSend
  <2>3. srv' = srv /\ ui' = ui
    BY <1>2 DEF handleReviewSubmit
  <2> QED BY <1>0, <2>2, <2>3, Fields
          DEF ApplicationsKnown, ApplicationsWith, ApplicationsCallFits, OnlyIn, NoneIn
<1>3. CASE RefreshApplications
  <2>1. Send("list", "none", {"loading"}) /\ ui' = [ui EXCEPT !.error = FALSE]
    BY <1>3 DEF RefreshApplications
  <2>2. smooth /\ OnlyIn(calls', Call("list", "none", {"loading"}))
    BY <2>1, SmoothSend
  <2>3. ApplicationsWith(calls, ui, srv)
    BY <1>0, <2>2 DEF ApplicationsKnown
  <2>4. DOMAIN ui' = DOMAIN ui
    BY <2>1
  <2> QED BY <2>2, <2>3, <2>4, Fields
          DEF ApplicationsWith, ApplicationsCallFits, OnlyIn, NoneIn
<1>4. CASE ApplicationsColleague
  BY <1>4 DEF ApplicationsColleague, Others
<1>5. ASSUME NEW s \in Slot, Lose(s) PROVE FALSE
  BY <1>5 DEF Lose
<1>6. ASSUME NEW s \in Slot, fetchApplications(s) PROVE ApplicationsWith(calls', ui', srv')
  <2>1. InFlight(s) /\ smooth /\ srv' = srv /\ NoneIn(calls')
    BY <1>6, AwaitsIsInFlight, SmoothEnd DEF fetchApplications
  <2>2. ApplicationsWith(calls, ui, srv) /\ ApplicationsCallFits(calls[s], ui, srv)
    BY <1>0, <2>1 DEF ApplicationsKnown, ApplicationsWith, InFlight
  <2>3. calls[s].ans = Ok(srv.status)
    BY <1>6, <2>2, Fields DEF ApplicationsCallFits, fetchApplications, Awaits
  <2>4. Succeeded(s) /\ calls[s].ans.data = srv.status
    BY <2>3, AnswerFields DEF Succeeded
  <2>5. ui' = [ui EXCEPT !.rows = calls[s].ans.data]
    BY <1>6, <2>4 DEF fetchApplications
  <2>6. DOMAIN ui' = DOMAIN ui /\ ui'.rows = srv.status
    BY <2>2, <2>4, <2>5 DEF ApplicationsWith
  <2> QED BY <2>1, <2>2, <2>6 DEF ApplicationsWith, NoneIn
<1>7. ASSUME NEW s \in Slot, Reviewed(s) PROVE ApplicationsWith(calls', ui', srv')
  <2>1. InFlight(s) /\ smooth /\ srv' = srv
    BY <1>7, AwaitsIsInFlight DEF Reviewed, EndThen, End
  <2>2. ApplicationsWith(calls, ui, srv) /\ ApplicationsCallFits(calls[s], ui, srv)
    BY <1>0, <2>1 DEF ApplicationsKnown, ApplicationsWith, InFlight
  <2>3. Succeeded(s)
    BY <1>7, <2>2, Fields DEF ApplicationsCallFits, Reviewed, Awaits, Succeeded
  <2>4. OnlyIn(calls', Call("list", "none", {"loading"}))
    BY <1>7, <2>1, <2>3, SmoothEndThen DEF Reviewed
  <2>5. DOMAIN ui' = DOMAIN ui
    BY <1>7, <2>3 DEF Reviewed, Closed
  <2> QED BY <2>2, <2>4, <2>5, Fields
          DEF ApplicationsWith, ApplicationsCallFits, OnlyIn, NoneIn
<1>8. ASSUME NEW s \in Slot, Serve(s, ApplicationsReplies(s))
      PROVE  ApplicationsWith(calls', ui', srv')
  <2> DEFINE c == calls'[s]
  <2>1. /\ smooth /\ InFlight(s) /\ ui' = ui
        /\ OnlyIn(calls', c) /\ c.op = calls[s].op
    BY <1>8, SmoothServe
  <2>2. PICK r \in ApplicationsReplies(s) : srv' = r.rows /\ c.ans = r.ans
    BY <1>8, SmoothServe
  <2> HIDE DEF c
  <2>3. ApplicationsWith(calls, ui, srv) /\ ApplicationsCallFits(calls[s], ui, srv)
    BY <1>0, <2>1 DEF ApplicationsKnown, ApplicationsWith, InFlight
  <2>4. ApplicationsCallFits(c, ui, srv')
    <3>1. CASE c.op = "list"
      <4>1. srv' = srv /\ c.ans = Ok(srv.status)
        BY <2>1, <2>2, <3>1 DEF ApplicationsReplies, Reply
      <4> QED BY <3>1, <4>1 DEF ApplicationsCallFits
    <3>2. CASE c.op = "review"
      <4>1. c.ans = Ok("application")
        BY <2>1, <2>2, <3>2 DEF ApplicationsReplies, Reply
      <4> QED BY <3>2, <4>1, AnswerFields DEF ApplicationsCallFits
    <3> QED BY <2>1, <2>3, <3>1, <3>2 DEF ApplicationsCallFits
  <2> QED BY <2>1, <2>3, <2>4 DEF ApplicationsWith, OnlyIn, NoneIn
<1> QED BY <1>1, <1>2, <1>3, <1>4, <1>5, <1>6, <1>7, <1>8 DEF ApplicationsNext

-----------------------------------------------------------------------------
(* The screening results: a load carries the filter that is chosen, and     *)
(* what is shown is only old while a disposition waits for its load.        *)
ResultsOf(filter, r) ==
  LET found == {m \in Match : filter = "" \/ r[m] = filter} IN [m \in found |-> r[m]]

ResultsCallFits(c, u, r) ==
  /\ c.op \in {"list", "getResult", "dispose"}
  /\ c.op = "list" => /\ c.arg = [filter |-> u.filter]
                      /\ c.ans = Pending \/ c.ans = Ok(ResultsOf(u.filter, r))
  /\ c.op = "dispose" => c.arg.filter = u.filter
  /\ ~(c.op = "list" \/ (c.op = "dispose" /\ c.ans.state = "ok")) =>
       u.rows = ResultsOf(u.filter, r)

ResultsWith(cs, u, r) ==
  /\ {"filter", "rows"} \subseteq DOMAIN u
  /\ NoneIn(cs) => u.rows = ResultsOf(u.filter, r)
  /\ \A s \in Slot : cs[s] # Free => ResultsCallFits(cs[s], u, r)

ResultsKnown == page = "results" /\ smooth => ResultsWith(calls, ui, srv)

LEMMA ResultsStarts ==
  ASSUME ConsoleInit, page = "results" => ResultsInit
  PROVE  ResultsKnown
<1> SUFFICES ASSUME page = "results" PROVE ResultsWith(calls, ui, srv)
  BY DEF ResultsKnown
<1>1. ResultsInit
  OBVIOUS
<1>2. OnlyIn(calls, Call("list", [filter |-> ""], {"loading"}))
  BY <1>1, SmoothMounted DEF ResultsInit
<1>3. PICK role \in ScreeningRole :
        ui = [filter |-> "", rows |-> <<>>, panel |-> "none", matches |-> "none",
              asked |-> "none", warning |-> FALSE, reload |-> FALSE, role |-> role]
  BY <1>1 DEF ResultsInit
<1>4. {"filter", "rows"} \subseteq DOMAIN ui /\ ui.filter = ""
  BY <1>3
<1>5. ResultsCallFits(Call("list", [filter |-> ""], {"loading"}), ui, srv)
  BY <1>4 DEF ResultsCallFits, Call, Pending
<1> QED BY <1>2, <1>4, <1>5 DEF ResultsWith, OnlyIn, NoneIn

LEMMA ResultsStep ==
  ASSUME ConsoleInv, ResultsKnown, ResultsNext, page' = page
  PROVE  ResultsKnown'
<1> SUFFICES ASSUME smooth' PROVE ResultsWith(calls', ui', srv')
  BY DEF ResultsKnown
<1>0. page = "results"
  BY DEF ResultsNext
(* A load that is asked for. *)
<1>a. ASSUME NEW flags, SendAlso("list", [filter |-> ui'.filter], flags),
             DOMAIN ui' = DOMAIN ui
      PROVE  ResultsWith(calls', ui', srv')
  <2>1. smooth /\ OnlyIn(calls', Call("list", [filter |-> ui'.filter], flags))
    BY <1>a, SmoothSendAlso
  <2>2. ResultsWith(calls, ui, srv)
    BY <1>0, <2>1 DEF ResultsKnown
  <2>3. ResultsCallFits(Call("list", [filter |-> ui'.filter], flags), ui', srv')
    BY DEF ResultsCallFits, Call, Pending
  <2> QED BY <1>a, <2>1, <2>2, <2>3 DEF ResultsWith, OnlyIn, NoneIn
<1>b. smooth
  BY DEF ResultsNext, ChooseDisposition, OpenPanel, ClosePanel, LoadMatches, handleDisposition,
         ReloadResults, ResultsColleague, ResultsArrived, MatchesArrived, DispositionEnds, Serve, Lose, Others,
         Send, SendAlso, End, EndThen
<1>c. ResultsWith(calls, ui, srv)
  BY <1>0, <1>b DEF ResultsKnown
<1>1. CASE ChooseDisposition
  <2>1. PICK filter : /\ ui' = [ui EXCEPT !.filter = filter]
                      /\ SendAlso("list", [filter |-> filter], {"loading"})
    BY <1>1 DEF ChooseDisposition
  <2>2. DOMAIN ui' = DOMAIN ui /\ ui'.filter = filter
    BY <1>c, <2>1 DEF ResultsWith
  <2> QED BY <1>a, <2>1, <2>2
<1>2. CASE OpenPanel \/ ClosePanel \/ ReloadResults
  <2>1. DOMAIN ui' = DOMAIN ui /\ ui'.filter = ui.filter
    BY <1>2, <1>c DEF OpenPanel, ClosePanel, ReloadResults, ResultsWith
  <2>2. SendAlso("list", [filter |-> ui.filter], {"loading"})
    BY <1>2 DEF OpenPanel, ClosePanel, ReloadResults
  <2> QED BY <1>a, <2>1, <2>2
<1>3. CASE LoadMatches
  <2>1. PICK arg : Send("getResult", arg, {"loadingMatches"})
    BY <1>3 DEF LoadMatches
  <2>2. NoneIn(calls) /\ OnlyIn(calls', Call("getResult", arg, {"loadingMatches"}))
    BY <2>1, SmoothSend
  <2>3. DOMAIN ui' = DOMAIN ui /\ ui'.filter = ui.filter /\ ui'.rows = ui.rows /\ srv' = srv
    BY <1>3, <1>c DEF LoadMatches, ResultsWith
  <2>4. ResultsCallFits(Call("getResult", arg, {"loadingMatches"}), ui', srv')
    BY <1>c, <2>2, <2>3 DEF ResultsWith, ResultsCallFits, Call, Pending
  <2> QED BY <1>c, <2>2, <2>3, <2>4 DEF ResultsWith, OnlyIn, NoneIn
<1>d. CASE handleDisposition
  <2>1. PICK arg : Send("dispose", arg, {}) /\ arg.filter = ui.filter
    BY <1>d DEF handleDisposition
  <2>2. NoneIn(calls) /\ OnlyIn(calls', Call("dispose", arg, {}))
    BY <2>1, SmoothSend
  <2>3. ui' = ui /\ srv' = srv
    BY <1>d DEF handleDisposition
  <2>4. ResultsCallFits(Call("dispose", arg, {}), ui, srv)
    BY <1>c, <2>1, <2>2 DEF ResultsWith, ResultsCallFits, Call, Pending
  <2> QED BY <1>c, <2>2, <2>3, <2>4 DEF ResultsWith, OnlyIn, NoneIn
<1>4. CASE ResultsColleague
  BY <1>4 DEF ResultsColleague, Others
<1>5. ASSUME NEW s \in Slot, Lose(s) PROVE FALSE
  BY <1>5 DEF Lose
<1>6. ASSUME NEW s \in Slot, ResultsArrived(s) PROVE ResultsWith(calls', ui', srv')
  <2>1. InFlight(s) /\ srv' = srv /\ NoneIn(calls')
    BY <1>6, AwaitsIsInFlight, SmoothEnd DEF ResultsArrived
  <2>2. ResultsCallFits(calls[s], ui, srv)
    BY <1>c, <2>1 DEF ResultsWith, InFlight
  <2>3. calls[s].ans = Ok(ResultsOf(ui.filter, srv))
    BY <1>6, <2>2, Fields DEF ResultsCallFits, ResultsArrived, Awaits
  <2>4. Succeeded(s) /\ calls[s].ans.data = ResultsOf(ui.filter, srv)
    BY <2>3, AnswerFields DEF Succeeded
  <2>5. /\ DOMAIN ui' = DOMAIN ui /\ ui'.filter = ui.filter
        /\ ui'.rows = ResultsOf(ui.filter, srv)
    BY <1>6, <1>c, <2>4 DEF ResultsArrived, ResultsWith
  <2> QED BY <1>c, <2>1, <2>5 DEF ResultsWith, NoneIn
<1>7. ASSUME NEW s \in Slot, MatchesArrived(s) PROVE ResultsWith(calls', ui', srv')
  <2>1. InFlight(s) /\ srv' = srv /\ NoneIn(calls') /\ calls[s].op = "getResult"
    BY <1>7, AwaitsIsInFlight, SmoothEnd DEF MatchesArrived, Awaits
  <2>2. ui.rows = ResultsOf(ui.filter, srv)
    BY <1>c, <2>1 DEF ResultsWith, ResultsCallFits, InFlight
  <2>3. DOMAIN ui' = DOMAIN ui /\ ui'.filter = ui.filter /\ ui'.rows = ui.rows
    BY <1>7, <1>c DEF MatchesArrived, ResultsWith
  <2> QED BY <1>c, <2>1, <2>2, <2>3 DEF ResultsWith, NoneIn
<1>8. ASSUME NEW s \in Slot, DispositionEnds(s) PROVE ResultsWith(calls', ui', srv')
  <2>1. InFlight(s) /\ srv' = srv /\ calls[s].op = "dispose"
    BY <1>8, AwaitsIsInFlight DEF DispositionEnds, Awaits
  <2>2. ResultsCallFits(calls[s], ui, srv)
    BY <1>c, <2>1 DEF ResultsWith, InFlight
  <2>3. DOMAIN ui' = DOMAIN ui /\ ui'.filter = ui.filter /\ ui'.rows = ui.rows
    BY <1>8, <1>c DEF DispositionEnds, ResultsWith
  <2>4. CASE Succeeded(s)
    <3>1. OnlyIn(calls', Call("list", [filter |-> ui.filter], {}))
      BY <1>8, <2>1, <2>2, <2>4, SmoothEndThen DEF DispositionEnds, ResultsCallFits
    <3>2. ResultsCallFits(Call("list", [filter |-> ui.filter], {}), ui', srv')
      BY <2>3 DEF ResultsCallFits, Call, Pending
    <3> QED BY <1>c, <2>3, <3>1, <3>2 DEF ResultsWith, OnlyIn, NoneIn
  <2>5. CASE ~Succeeded(s)
    <3>1. NoneIn(calls')
      BY <1>8, <2>1, <2>5, SmoothEnd DEF DispositionEnds
    <3> QED BY <1>c, <2>1, <2>2, <2>3, <2>5, <3>1
            DEF ResultsWith, ResultsCallFits, Succeeded, NoneIn
  <2> QED BY <2>4, <2>5
<1>9. ASSUME NEW s \in Slot, Serve(s, ResultsReplies(s)) PROVE ResultsWith(calls', ui', srv')
  <2> DEFINE c == calls'[s]
  <2>1. /\ smooth /\ InFlight(s) /\ ui' = ui /\ calls[s].ans = Pending
        /\ OnlyIn(calls', c) /\ c.op = calls[s].op /\ c.arg = calls[s].arg
    BY <1>9, SmoothServe
  <2>2. PICK r \in ResultsReplies(s) : srv' = r.rows /\ c.ans = r.ans
    BY <1>9, SmoothServe
  <2> HIDE DEF c
  <2>3. ResultsCallFits(calls[s], ui, srv)
    BY <1>c, <2>1 DEF ResultsWith, InFlight
  <2>4. ResultsCallFits(c, ui, srv')
    <3>1. CASE c.op = "list"
      <4>1. srv' = srv /\ c.ans = Ok(list_results(calls[s].arg.filter))
        BY <2>1, <2>2, <3>1 DEF ResultsReplies, Reply
      <4>2. calls[s].arg.filter = ui.filter
        BY <2>1, <2>3, <3>1 DEF ResultsCallFits
      <4>3. list_results(ui.filter) = ResultsOf(ui.filter, srv)
        BY DEF list_results, ResultsOf
      <4> QED BY <2>1, <2>3, <3>1, <4>1, <4>2, <4>3 DEF ResultsCallFits
    <3>2. CASE c.op = "getResult"
      <4>1. srv' = srv
        BY <2>1, <2>2, <3>2 DEF ResultsReplies, Reply
      <4> QED BY <2>1, <2>3, <3>2, <4>1 DEF ResultsCallFits
    <3>3. CASE c.op = "dispose"
      <4>1. r \in dispose(calls[s].arg)
        BY <2>1, <2>2, <3>3 DEF ResultsReplies
      <4>2. CASE r = Reply(srv, Failed)
        BY <2>1, <2>2, <2>3, <3>3, <4>2, Fields DEF ResultsCallFits, Reply
      <4>3. CASE r # Reply(srv, Failed)
        <5>1. PICK rows, data : r = Reply(rows, Ok(data))
          BY <4>1, <4>3 DEF dispose, Refuse
        <5> QED BY <2>1, <2>2, <2>3, <3>3, <5>1, AnswerFields DEF ResultsCallFits, Reply
      <4> QED BY <4>2, <4>3
    <3> QED BY <2>1, <2>3, <3>1, <3>2, <3>3 DEF ResultsCallFits
  <2> QED BY <1>c, <2>1, <2>4 DEF ResultsWith, OnlyIn, NoneIn
<1> QED BY <1>1, <1>2, <1>3, <1>4, <1>5, <1>6, <1>7, <1>8, <1>9, <1>d DEF ResultsNext

-----------------------------------------------------------------------------
(* The batch jobs.  What is shown, or on its way, may be behind the rows,   *)
(* which a worker writes at any time: but only where a job is shown active. *)
JobStatus == {"queued", "processing", "complete", "failed"}

Behind(jobs, r) ==
  /\ jobs \in Seq(JobStatus) /\ DOMAIN jobs = DOMAIN r
  /\ \A i \in DOMAIN r : jobs[i] \notin Active => r[i] = jobs[i]

BatchCallFits(c, u, r) ==
  /\ c.op \in {"listJobs", "upload"}
  /\ c.op = "listJobs" => c.ans = Pending \/ (c.ans.state = "ok" /\ Behind(c.ans.data, r))
  /\ c.op = "upload" /\ c.ans.state # "ok" => Behind(u.jobs, r)

BatchWith(cs, u, r) ==
  /\ {"jobs", "error"} \subseteq DOMAIN u
  /\ r \in Seq(JobStatus)
  /\ NoneIn(cs) => Behind(u.jobs, r)
  /\ \A s \in Slot : cs[s] # Free => BatchCallFits(cs[s], u, r)

BatchKnown == page = "batch" /\ smooth => BatchWith(calls, ui, srv)

LEMMA BatchStarts ==
  ASSUME ConsoleInit, page = "batch" => BatchInit
  PROVE  BatchKnown
<1> SUFFICES ASSUME page = "batch" PROVE BatchWith(calls, ui, srv)
  BY DEF BatchKnown
<1>1. BatchInit
  OBVIOUS
<1>2. OnlyIn(calls, Call("listJobs", "none", {"loading"}))
  BY <1>1, SmoothMounted DEF BatchInit
<1>3. {"jobs", "error"} \subseteq DOMAIN ui /\ srv \in {<<>>, <<"queued">>, <<"complete">>}
  BY <1>1 DEF BatchInit
<1>4. <<>> \in Seq(JobStatus) /\ <<"queued">> \in Seq(JobStatus) /\ <<"complete">> \in Seq(JobStatus)
  BY DEF JobStatus
<1>5. srv \in Seq(JobStatus)
  BY <1>3, <1>4
<1> QED BY <1>2, <1>3, <1>5, Fields DEF BatchWith, BatchCallFits, OnlyIn, NoneIn

(* A step of a worker leaves what is behind behind. *)
LEMMA StillBehind ==
  ASSUME NEW r \in Seq(JobStatus), NEW i \in DOMAIN r, r[i] \in Active, NEW st \in JobStatus
  PROVE  /\ [r EXCEPT ![i] = st] \in Seq(JobStatus)
         /\ \A jobs : Behind(jobs, r) => Behind(jobs, [r EXCEPT ![i] = st])
BY DEF Behind

LEMMA AppendIsSeq ==
  ASSUME NEW S, NEW q \in Seq(S), NEW e \in S
  PROVE  Append(q, e) \in Seq(S)
OBVIOUS

LEMMA BatchStep ==
  ASSUME ConsoleInv, BatchKnown, BatchNext, page' = page
  PROVE  BatchKnown'
<1> SUFFICES ASSUME smooth' PROVE BatchWith(calls', ui', srv')
  BY DEF BatchKnown
<1>0. page = "batch"
  BY DEF BatchNext
<1>1. CASE Poll
  <2>1. SendAlso("listJobs", "none", {"loading"}) /\ ui' = ui /\ srv' = srv
    BY <1>1 DEF Poll
  <2>2. smooth /\ OnlyIn(calls', Call("listJobs", "none", {"loading"}))
    BY <2>1, SmoothSendAlso
  <2> QED BY <1>0, <2>1, <2>2, Fields DEF BatchKnown, BatchWith, BatchCallFits, OnlyIn, NoneIn
<1>2. CASE handleFileChange
  <2>1. Send("upload", "none", {"uploading"}) /\ ui' = [ui EXCEPT !.error = FALSE] /\ srv' = srv
    BY <1>2 DEF handleFileChange
  <2>2. smooth /\ NoneIn(calls) /\ OnlyIn(calls', Call("upload", "none", {"uploading"}))
    BY <2>1, SmoothSend
  <2>3. BatchWith(calls, ui, srv)
    BY <1>0, <2>2 DEF BatchKnown
  <2>4. DOMAIN ui' = DOMAIN ui /\ ui'.jobs = ui.jobs
    BY <2>1, <2>3 DEF BatchWith
  <2> QED BY <2>1, <2>2, <2>3, <2>4, Fields DEF BatchWith, BatchCallFits, OnlyIn, NoneIn
<1>3. CASE WorkerStep
  <2>1. PICK i \in DOMAIN srv :
          /\ srv[i] \in Active
          /\ \E st \in IF srv[i] = "queued" THEN {"processing", "failed"} ELSE {"complete", "failed"} :
               srv' = [srv EXCEPT ![i] = st]
    BY <1>3 DEF WorkerStep
  <2>2. PICK st \in {"processing", "failed", "complete"} : srv' = [srv EXCEPT ![i] = st]
    BY <2>1
  <2>a. st \in JobStatus
    BY <2>2 DEF JobStatus
  <2>3. calls' = calls /\ ui' = ui /\ smooth
    BY <1>3 DEF WorkerStep
  <2>4. BatchWith(calls, ui, srv)
    BY <1>0, <2>3 DEF BatchKnown
  <2>5. srv' \in Seq(JobStatus) /\ \A jobs : Behind(jobs, srv) => Behind(jobs, srv')
    BY <2>1, <2>2, <2>a, <2>4, StillBehind DEF BatchWith
  <2> QED BY <2>3, <2>4, <2>5 DEF BatchWith, BatchCallFits
<1>4. CASE BatchColleague
  BY <1>4 DEF BatchColleague, Others
<1>5. ASSUME NEW s \in Slot, Lose(s) PROVE FALSE
  BY <1>5 DEF Lose
<1>6. ASSUME NEW s \in Slot, fetchJobs(s) PROVE BatchWith(calls', ui', srv')
  <2>1. InFlight(s) /\ smooth /\ srv' = srv /\ NoneIn(calls')
    BY <1>6, AwaitsIsInFlight, SmoothEnd DEF fetchJobs
  <2>2. BatchWith(calls, ui, srv) /\ BatchCallFits(calls[s], ui, srv)
    BY <1>0, <2>1 DEF BatchKnown, BatchWith, InFlight
  <2>3. Succeeded(s) /\ Behind(calls[s].ans.data, srv)
    BY <1>6, <2>2, Fields DEF BatchCallFits, fetchJobs, Awaits, Succeeded
  <2>4. DOMAIN ui' = DOMAIN ui /\ ui'.jobs = calls[s].ans.data
    BY <1>6, <2>2, <2>3 DEF fetchJobs, BatchWith
  <2> QED BY <2>1, <2>2, <2>3, <2>4 DEF BatchWith, NoneIn
<1>7. ASSUME NEW s \in Slot, BatchUploaded(s) PROVE BatchWith(calls', ui', srv')
  <2>1. InFlight(s) /\ smooth /\ srv' = srv /\ calls[s].op = "upload"
    BY <1>7, AwaitsIsInFlight DEF BatchUploaded, ChainAlso, End, Awaits
  <2>2. BatchWith(calls, ui, srv) /\ BatchCallFits(calls[s], ui, srv)
    BY <1>0, <2>1 DEF BatchKnown, BatchWith, InFlight
  <2>3. CASE Succeeded(s)
    <3>1. ui' = ui /\ ChainAlso(s, "listJobs", "none", {"loading"})
      BY <1>7, <2>3 DEF BatchUploaded
    <3>2. OnlyIn(calls', Call("listJobs", "none", calls[s].flags \cup {"loading"}))
      BY <2>1, <3>1, SmoothChainAlso
    <3> QED BY <2>1, <2>2, <3>1, <3>2, Fields DEF BatchWith, BatchCallFits, OnlyIn, NoneIn
  <2>4. CASE ~Succeeded(s)
    <3>1. ui' = [ui EXCEPT !.error = TRUE] /\ NoneIn(calls')
      BY <1>7, <2>1, <2>4, SmoothEnd DEF BatchUploaded
    <3>2. DOMAIN ui' = DOMAIN ui /\ ui'.jobs = ui.jobs
      BY <2>2, <3>1 DEF BatchWith
    <3> QED BY <2>1, <2>2, <2>4, <3>1, <3>2 DEF BatchWith, BatchCallFits, Succeeded, NoneIn
  <2> QED BY <2>3, <2>4
<1>8. ASSUME NEW s \in Slot, Serve(s, BatchReplies(s)) PROVE BatchWith(calls', ui', srv')
  <2> DEFINE c == calls'[s]
  <2>1. /\ smooth /\ InFlight(s) /\ ui' = ui /\ calls[s].ans = Pending
        /\ OnlyIn(calls', c) /\ c.op = calls[s].op
    BY <1>8, SmoothServe
  <2>2. PICK r \in BatchReplies(s) : srv' = r.rows /\ c.ans = r.ans
    BY <1>8, SmoothServe
  <2> HIDE DEF c
  <2>3. BatchWith(calls, ui, srv) /\ BatchCallFits(calls[s], ui, srv)
    BY <1>0, <2>1 DEF BatchKnown, BatchWith, InFlight
  <2>4. srv' \in Seq(JobStatus) /\ BatchCallFits(c, ui, srv')
    <3>1. CASE c.op = "listJobs"
      <4>1. srv' = srv /\ c.ans = Ok(srv)
        BY <2>1, <2>2, <3>1 DEF BatchReplies, Reply
      <4>2. Behind(srv, srv)
        BY <2>3 DEF Behind, BatchWith
      <4> QED BY <2>3, <3>1, <4>1, <4>2, AnswerFields DEF BatchCallFits, BatchWith
    <3>2. CASE c.op = "upload"
      <4>1. r \in {Reply(Append(srv, "queued"), Ok(<<"queued">>)), Reply(srv, Failed)}
        BY <2>1, <2>2, <3>2 DEF BatchReplies, Refuse
      <4>2. CASE r = Reply(Append(srv, "queued"), Ok(<<"queued">>))
        <5>1. srv' = Append(srv, "queued") /\ c.ans = Ok(<<"queued">>)
          BY <2>2, <4>2 DEF Reply
        <5>2. srv \in Seq(JobStatus) /\ "queued" \in JobStatus
          BY <2>3 DEF BatchWith, JobStatus
        <5>3. Append(srv, "queued") \in Seq(JobStatus)
          BY <5>2, AppendIsSeq
        <5>4. c.ans.state = "ok"
          BY <5>1, AnswerFields
        <5> QED BY <3>2, <5>1, <5>3, <5>4 DEF BatchCallFits
      <4>3. CASE r = Reply(srv, Failed)
        <5>1. srv' = srv
          BY <2>2, <4>3 DEF Reply
        <5> QED BY <2>1, <2>3, <3>2, <5>1, Fields DEF BatchCallFits, BatchWith
      <4> QED BY <4>1, <4>2, <4>3
    <3> QED BY <2>1, <2>3, <3>1, <3>2 DEF BatchCallFits
  <2> QED BY <2>1, <2>3, <2>4 DEF BatchWith, OnlyIn, NoneIn
<1> QED BY <1>1, <1>2, <1>3, <1>4, <1>5, <1>6, <1>7, <1>8 DEF BatchNext

-----------------------------------------------------------------------------
(* The incident that is shown is the one of the rows, but while a call that *)
(* was served, or the load after it, is under way.                         *)
IncidentCallFits(c, u, r) ==
  /\ c.op = "getIncident" => c.ans = Pending \/ c.ans = Ok(IncidentResponse(r))
  /\ c.op \in IncidentOp => (c.ans = Pending /\ u.incident = IncidentResponse(r)) \/ c.ans.state = "ok"

IncidentWith(cs, u, r) ==
  /\ NoneIn(cs) => u.incident = IncidentResponse(r)
  /\ \A s \in Slot : cs[s] # Free => IncidentCallFits(cs[s], u, r)

IncidentKnown == page = "incident" /\ smooth => IncidentWith(calls, ui, srv)

LEMMA IncidentKnownStarts ==
  ASSUME ConsoleInit
  PROVE  IncidentKnown
<1> SUFFICES ASSUME page = "incident" PROVE IncidentWith(calls, ui, srv)
  BY DEF IncidentKnown
<1>1. IncidentInit
  BY InitOfPage
<1>2. OnlyIn(calls, Call("getIncident", "none", {"loading"}))
  BY <1>1, SmoothMounted DEF IncidentInit
<1> QED BY <1>2, Fields DEF IncidentWith, IncidentCallFits, IncidentOp, OnlyIn, NoneIn

LEMMA IncidentKnownStep ==
  ASSUME ConsoleInv, IncidentInv, IncidentKnown, IncidentNext, page' = page
  PROVE  IncidentKnown'
<1> SUFFICES ASSUME smooth' PROVE IncidentWith(calls', ui', srv')
  BY DEF IncidentKnown
<1>0. page = "incident" /\ {"incident", "error", "dialog", "containment"} \subseteq DOMAIN ui
  BY DEF IncidentNext, IncidentInv
<1>1. CASE OpenDialog \/ CloseDialog \/ TypeContainment
  <2>1. calls' = calls /\ smooth /\ srv' = srv
    BY <1>1 DEF OpenDialog, CloseDialog, TypeContainment, NoCall
  <2>2. ui'.incident = ui.incident
    BY <1>0, <1>1 DEF OpenDialog, CloseDialog, TypeContainment
  <2> QED BY <1>0, <2>1, <2>2 DEF IncidentKnown, IncidentWith, IncidentCallFits
<1>2. ASSUME NEW op \in IncidentOp, NEW arg, NEW flag, Press(op, arg, flag)
      PROVE  IncidentWith(calls', ui', srv')
  <2>1. Send(op, arg, {flag}) /\ ui' = ui /\ srv' = srv
    BY <1>2 DEF Press
  <2>2. smooth /\ NoneIn(calls) /\ OnlyIn(calls', Call(op, arg, {flag}))
    BY <2>1, SmoothSend
  <2>3. IncidentWith(calls, ui, srv)
    BY <1>0, <2>2 DEF IncidentKnown
  <2>4. IncidentCallFits(Call(op, arg, {flag}), ui, srv)
    BY <2>2, <2>3, Fields DEF IncidentWith, IncidentCallFits, IncidentOp
  <2> QED BY <2>1, <2>2, <2>4 DEF IncidentWith, OnlyIn, NoneIn
<1>3. CASE handleNotifyAuthority \/ handleSubmitReport \/ handleResolve \/ handleEdit
  BY <1>2, <1>3 DEF handleNotifyAuthority, handleSubmitReport, handleResolve, handleEdit, IncidentOp
<1>4. CASE IncidentColleague
  BY <1>4 DEF IncidentColleague, Others
<1>5. ASSUME NEW s \in Slot, Lose(s) PROVE FALSE
  BY <1>5 DEF Lose
<1>6. ASSUME NEW s \in Slot, fetchIncident(s) PROVE IncidentWith(calls', ui', srv')
  <2>1. InFlight(s) /\ smooth /\ srv' = srv /\ NoneIn(calls')
    BY <1>6, AwaitsIsInFlight, SmoothEnd DEF fetchIncident
  <2>2. IncidentCallFits(calls[s], ui, srv)
    BY <1>0, <2>1 DEF IncidentKnown, IncidentWith, InFlight
  <2>3. calls[s].ans = Ok(IncidentResponse(srv))
    BY <1>6, <2>2, Fields DEF IncidentCallFits, fetchIncident, Awaits
  <2>4. Succeeded(s) /\ calls[s].ans.data = IncidentResponse(srv)
    BY <2>3, AnswerFields DEF Succeeded
  <2>5. ui'.incident = calls[s].ans.data
    BY <1>0, <1>6, <2>4 DEF fetchIncident
  <2> QED BY <2>1, <2>4, <2>5 DEF IncidentWith, NoneIn
<1>7. ASSUME NEW s \in Slot, IncidentChanged(s) PROVE IncidentWith(calls', ui', srv')
  <2>1. InFlight(s) /\ smooth /\ srv' = srv /\ calls[s].op \in IncidentOp
    BY <1>7, AwaitsIsInFlight DEF IncidentChanged, Chain, End, IncidentOp
  <2>2. IncidentCallFits(calls[s], ui, srv)
    BY <1>0, <2>1 DEF IncidentKnown, IncidentWith, InFlight
  <2>3. Succeeded(s)
    BY <1>7, <2>1, <2>2, Fields DEF IncidentCallFits, IncidentChanged, Awaits, Succeeded
  <2>4. OnlyIn(calls', Call("getIncident", "none", calls[s].flags \cup {"loading"}))
    BY <1>7, <2>1, <2>3, SmoothChain DEF IncidentChanged
  <2> QED BY <2>4, Fields DEF IncidentWith, IncidentCallFits, IncidentOp, OnlyIn, NoneIn
<1>8. ASSUME NEW s \in Slot, Serve(s, IncidentReplies(s)) PROVE IncidentWith(calls', ui', srv')
  <2> DEFINE c == calls'[s]
  <2>1. /\ smooth /\ InFlight(s) /\ ui' = ui /\ OnlyIn(calls', c) /\ c.op = calls[s].op
    BY <1>8, SmoothServe
  <2>2. PICK r \in IncidentReplies(s) : srv' = r.rows /\ c.ans = r.ans
    BY <1>8, SmoothServe
  <2> HIDE DEF c
  <2>3. c.ans = Ok(IncidentResponse(srv'))
    <3>1. calls[s].op \in IncidentOp \cup {"getIncident"}
      BY <1>0, <2>1 DEF IncidentInv, IncidentCall, InFlight
    <3>2. r.ans = Ok(IncidentResponse(r.rows))
      BY <1>0, <3>1, IncidentServed DEF IncidentInv
    <3> QED BY <2>2, <3>2
  <2>4. IncidentCallFits(c, ui, srv')
    BY <2>3, AnswerFields DEF IncidentCallFits
  <2> QED BY <2>1, <2>4 DEF IncidentWith, OnlyIn, NoneIn
<1> QED BY <1>1, <1>3, <1>4, <1>5, <1>6, <1>7, <1>8 DEF IncidentNext

-----------------------------------------------------------------------------
(* The header: the count never goes past the unread notifications shown.    *)
HeaderCall(c) ==
  /\ c.op \in {"poll", "markRead", "search"}
  /\ c.op = "poll" /\ c.ans.state = "ok" => c.ans.data \subseteq Notification
  /\ c.op = "markRead" => c.arg = Notification \/ \E n \in Notification : c.arg = {n}

HeaderTyped ==
  page = "header" =>
    /\ ui = [unread |-> ui.unread, count |-> ui.count, query |-> ui.query, timer |-> ui.timer,
             searching |-> ui.searching, results |-> ui.results, open |-> ui.open]
    /\ srv \subseteq Notification /\ ui.unread \subseteq Notification
    /\ ui.count \in Nat /\ ui.count <= Cardinality(ui.unread)
    /\ \A s \in Slot : calls[s] # Free => HeaderCall(calls[s])

LEMMA Unread ==
  ASSUME NEW S \in SUBSET Notification
  PROVE  /\ Cardinality(S) \in Nat
         /\ \A n : Cardinality(S) - 1 <= Cardinality(S \ {n}) /\ Cardinality(S \ {n}) \in Nat
<1>1. IsFiniteSet(Notification)
  <2>1. IsFiniteSet({"one"} \cup {"another"})
    BY FS_AddElement, FS_EmptySet, FS_Singleton, FS_Union
  <2> QED BY <2>1 DEF Notification
<1>2. IsFiniteSet(S)
  BY <1>1, FS_Subset
<1>3. Cardinality(S) \in Nat
  BY <1>2, FS_CardinalityType
<1>4. ASSUME NEW n
      PROVE  Cardinality(S) - 1 <= Cardinality(S \ {n}) /\ Cardinality(S \ {n}) \in Nat
  <2>1. IsFiniteSet(S \ {n}) /\ Cardinality(S \ {n}) = IF n \in S THEN Cardinality(S) - 1 ELSE Cardinality(S)
    BY <1>2, FS_RemoveElement
  <2>2. Cardinality(S \ {n}) \in Nat
    BY <2>1, FS_CardinalityType
  <2> QED BY <1>3, <2>1, <2>2
<1> QED BY <1>3, <1>4

LEMMA HeaderTypesStart ==
  ASSUME ConsoleInit, page = "header" => HeaderInit
  PROVE  HeaderTyped
<1> SUFFICES ASSUME page = "header" PROVE HeaderTyped
  BY DEF HeaderTyped
<1>1. HeaderInit
  OBVIOUS
<1>2. OnlyIn(calls, Call("poll", {}, {}))
  BY <1>1, SmoothMounted DEF HeaderInit
<1>3. HeaderCall(Call("poll", {}, {}))
  BY DEF HeaderCall, Call, Pending
<1>4. 0 <= Cardinality({})
  BY FS_EmptySet
<1> QED BY <1>1, <1>2, <1>3, <1>4 DEF HeaderInit, HeaderTyped, OnlyIn

LEMMA HeaderTypesStep ==
  ASSUME ConsoleInv, HeaderTyped, HeaderNext, page' = page
  PROVE  HeaderTyped'
<1> DEFINE Shape(u) ==
      u = [unread |-> u.unread, count |-> u.count, query |-> u.query, timer |-> u.timer,
           searching |-> u.searching, results |-> u.results, open |-> u.open]
<1>0. /\ page = "header" /\ page' = "header" /\ Shape(ui)
      /\ srv \subseteq Notification /\ ui.unread \subseteq Notification
      /\ ui.count \in Nat /\ ui.count <= Cardinality(ui.unread)
      /\ \A s \in Slot : calls[s] # Free => HeaderCall(calls[s])
  BY DEF HeaderNext, HeaderTyped
<1>a. ASSUME Shape(ui'), srv' \subseteq Notification, ui'.unread \subseteq Notification,
             ui'.count \in Nat, ui'.count <= Cardinality(ui'.unread),
             \A s \in Slot : calls'[s] # Free => HeaderCall(calls'[s])
      PROVE  HeaderTyped'
  BY <1>0, <1>a DEF HeaderTyped
<1>b. ASSUME NEW op, NEW arg, Send(op, arg, {}), srv' = srv, Shape(ui'),
             ui'.unread = ui.unread, ui'.count = ui.count,
             op \in {"poll", "markRead", "search"}, op = "markRead" => arg = Notification \/ \E n \in Notification : arg = {n}
      PROVE  HeaderTyped'
  <2>1. \A t \in Slot : calls'[t] \in {calls[t], Call(op, arg, {})}
    BY <1>b, EachSend
  <2>2. HeaderCall(Call(op, arg, {}))
    BY <1>b, Fields DEF HeaderCall
  <2> QED BY <1>0, <1>a, <1>b, <2>1, <2>2
<1>c. ASSUME NEW s \in Slot, End(s), srv' = srv
      PROVE  srv' \subseteq Notification /\ \A t \in Slot : calls'[t] # Free => HeaderCall(calls'[t])
  BY <1>0, <1>c, EachEnd
<1>1. CASE PollNotifications
  BY <1>0, <1>1, <1>b DEF PollNotifications
<1>2. CASE handleMarkRead
  BY <1>0, <1>2, <1>b DEF handleMarkRead
<1>3. CASE handleMarkAllRead
  BY <1>0, <1>3, <1>b DEF handleMarkAllRead
<1>4. CASE SearchTimer
  <2>1. /\ ui' = [ui EXCEPT !.timer = FALSE] /\ Send("search", {ui.query}, {}) /\ srv' = srv
    BY <1>4 DEF SearchTimer
  <2>2. Shape(ui') /\ ui'.unread = ui.unread /\ ui'.count = ui.count
    BY <1>0, <2>1
  <2> QED BY <1>b, <2>1, <2>2
<1>5. CASE handleSearchChange \/ handleSearchSelect \/ OpenSearch
  <2>1. calls' = calls /\ srv' = srv
    BY <1>5 DEF handleSearchChange, handleSearchSelect, OpenSearch, NoCall
  <2>2. Shape(ui') /\ ui'.unread = ui.unread /\ ui'.count = ui.count
    BY <1>0, <1>5 DEF handleSearchChange, handleSearchSelect, OpenSearch
  <2> QED BY <1>0, <1>a, <2>1, <2>2
<1>6. CASE HeaderColleague
  <2>1. PICK n \in Notification : srv' = srv \cup {n}
    BY <1>6 DEF HeaderColleague, Others
  <2>2. calls' = calls /\ ui' = ui
    BY <1>6 DEF HeaderColleague, Others
  <2> QED BY <1>0, <1>a, <2>1, <2>2
<1>7. ASSUME NEW s \in Slot, fetchNotifications(s) PROVE HeaderTyped'
  <2>1. End(s) /\ srv' = srv /\ InFlight(s) /\ calls[s].op = "poll"
    BY <1>7, AwaitsIsInFlight DEF fetchNotifications, Awaits
  <2>2. CASE Succeeded(s)
    <3>1. ui' = [ui EXCEPT !.unread = calls[s].ans.data, !.count = Cardinality(calls[s].ans.data)]
      BY <1>7, <2>2 DEF fetchNotifications
    <3>2. calls[s].ans.data \subseteq Notification
      BY <1>0, <2>1, <2>2 DEF HeaderCall, InFlight, Succeeded
    <3>3. Shape(ui') /\ ui'.unread = calls[s].ans.data /\ ui'.count = Cardinality(calls[s].ans.data)
      BY <1>0, <3>1
    <3>4. Cardinality(calls[s].ans.data) \in Nat
      BY <3>2, Unread
    <3> QED BY <1>a, <1>c, <2>1, <3>2, <3>3, <3>4
  <2>3. CASE ~Succeeded(s)
    <3>1. ui' = ui
      BY <1>7, <2>3 DEF fetchNotifications
    <3> QED BY <1>0, <1>a, <1>c, <2>1, <3>1
  <2> QED BY <2>2, <2>3
<1>8. ASSUME NEW s \in Slot, MarkedRead(s) PROVE HeaderTyped'
  <2>1. End(s) /\ srv' = srv /\ InFlight(s) /\ calls[s].op = "markRead"
    BY <1>8, AwaitsIsInFlight DEF MarkedRead, Awaits
  <2>2. CASE ui' = ui
    BY <1>0, <1>a, <1>c, <2>1, <2>2
  <2>3. CASE ui' # ui
    <3>1. ui' = [ui EXCEPT !.unread = @ \ calls[s].arg,
                           !.count = IF calls[s].arg = Notification THEN 0 ELSE LargerOf(0, @ - 1)]
      BY <1>8, <2>3 DEF MarkedRead
    <3>2. /\ Shape(ui') /\ ui'.unread = ui.unread \ calls[s].arg
          /\ ui'.count = IF calls[s].arg = Notification THEN 0 ELSE LargerOf(0, ui.count - 1)
      BY <1>0, <3>1
    <3>3. ui'.unread \in SUBSET Notification
      BY <1>0, <3>2
    <3>4. ui'.count \in Nat /\ ui'.count <= Cardinality(ui'.unread)
      <4>1. CASE calls[s].arg = Notification
        BY <3>2, <3>3, <4>1, Unread
      <4>2. CASE calls[s].arg # Notification
        <5>1. PICK n \in Notification : calls[s].arg = {n}
          BY <1>0, <2>1, <4>2 DEF HeaderCall, InFlight
        <5>2. ui'.unread = ui.unread \ {n} /\ ui'.count = LargerOf(0, ui.count - 1)
          BY <3>2, <4>2, <5>1
        <5>3. /\ Cardinality(ui.unread) - 1 <= Cardinality(ui.unread \ {n})
              /\ Cardinality(ui.unread) \in Nat /\ Cardinality(ui.unread \ {n}) \in Nat
          BY <1>0, Unread
        <5> QED BY <1>0, <5>2, <5>3 DEF LargerOf
      <4> QED BY <4>1, <4>2
    <3> QED BY <1>a, <1>c, <2>1, <3>2, <3>3, <3>4
  <2> QED BY <2>2, <2>3
<1>9. ASSUME NEW s \in Slot, SearchArrived(s) PROVE HeaderTyped'
  <2>1. End(s) /\ srv' = srv
    BY <1>9 DEF SearchArrived
  <2>2. Shape(ui') /\ ui'.unread = ui.unread /\ ui'.count = ui.count
    BY <1>0, <1>9 DEF SearchArrived
  <2> QED BY <1>0, <1>a, <1>c, <2>1, <2>2
<1>10. ASSUME NEW s \in Slot, Serve(s, HeaderReplies(s)) PROVE HeaderTyped'
  <2>1. InFlight(s) /\ ui' = ui
    BY <1>10, EachServe
  <2>2. PICK r \in HeaderReplies(s) :
          /\ srv' = r.rows
          /\ \A t \in Slot : \/ calls'[t] = calls[t]
                             \/ /\ t = s /\ calls'[t].op = calls[t].op
                                /\ calls'[t].arg = calls[t].arg /\ calls'[t].ans = r.ans
    BY <1>10, EachServe
  <2>3. CASE calls[s].op = "poll"
    <3>1. srv' = srv /\ r.ans = Ok(srv)
      BY <2>2, <2>3 DEF HeaderReplies, Reply
    <3>2. \A t \in Slot : calls'[t] # Free => HeaderCall(calls'[t])
      BY <1>0, <2>1, <2>2, <2>3, <3>1, AnswerFields DEF HeaderCall, InFlight
    <3> QED BY <1>0, <1>a, <2>1, <3>1, <3>2
  <2>4. CASE calls[s].op # "poll"
    <3>1. \A t \in Slot : calls'[t] # Free => HeaderCall(calls'[t])
      BY <1>0, <2>1, <2>2, <2>4 DEF HeaderCall, InFlight
    <3>2. CASE calls[s].op = "markRead"
      <4>1. srv' \subseteq srv
        BY <2>2, <3>2 DEF HeaderReplies, Reply
      <4> QED BY <1>0, <1>a, <2>1, <3>1, <4>1
    <3>3. CASE calls[s].op = "search"
      <4>1. srv' = srv
        BY <2>2, <3>3 DEF HeaderReplies, Reply
      <4> QED BY <1>0, <1>a, <2>1, <3>1, <4>1
    <3> QED BY <1>0, <2>1, <2>4, <3>2, <3>3 DEF HeaderCall, InFlight
  <2> QED BY <2>3, <2>4
<1>11. ASSUME NEW s \in Slot, Lose(s) PROVE HeaderTyped'
  <2>1. /\ InFlight(s) /\ ui' = ui /\ srv' = srv
        /\ \A t \in Slot : \/ calls'[t] = calls[t]
                           \/ /\ t = s /\ calls'[t].op = calls[t].op
                              /\ calls'[t].arg = calls[t].arg /\ calls'[t].ans = Failed
    BY <1>11, EachLose
  <2>2. \A t \in Slot : calls'[t] # Free => HeaderCall(calls'[t])
    BY <1>0, <2>1, AnswerFields DEF HeaderCall, InFlight
  <2> QED BY <1>0, <1>a, <2>1, <2>2
<1> QED BY <1>1, <1>2, <1>3, <1>4, <1>5, <1>6, <1>7, <1>8, <1>9, <1>10, <1>11 DEF HeaderNext

-----------------------------------------------------------------------------
(* While all goes smoothly the header knows which notifications are unread, *)
(* and which text its results, or the search under way, are about.          *)
Searched(u) == ~u.timer /\ u.query # "" => u.results = {u.query} /\ ~u.searching

HeaderCallFits(c, u, r) ==
  /\ c.op \in {"poll", "markRead", "search"}
  /\ c.op = "poll" => c.ans = Pending \/ c.ans = Ok(r)
  /\ c.op = "markRead" => \/ c.ans = Pending /\ u.unread = r
                          \/ c.ans.state = "ok" /\ r = u.unread \ c.arg
  /\ c.op = "search" =>
       /\ u.unread = r
       /\ c.ans = Pending \/ c.ans.state = "ok"
       /\ ~u.timer /\ u.query # "" => c.arg = {u.query}
  /\ c.op # "search" => Searched(u)

HeaderWith(cs, u, r) ==
  /\ u = [unread |-> u.unread, count |-> u.count, query |-> u.query, timer |-> u.timer,
          searching |-> u.searching, results |-> u.results, open |-> u.open]
  /\ NoneIn(cs) => u.unread = r /\ Searched(u)
  /\ \A s \in Slot : cs[s] # Free => HeaderCallFits(cs[s], u, r)

HeaderKnown == page = "header" /\ smooth => HeaderWith(calls, ui, srv)

LEMMA HeaderStarts ==
  ASSUME ConsoleInit, page = "header" => HeaderInit
  PROVE  HeaderKnown
<1> SUFFICES ASSUME page = "header" PROVE HeaderWith(calls, ui, srv)
  BY DEF HeaderKnown
<1>1. HeaderInit
  OBVIOUS
<1>2. OnlyIn(calls, Call("poll", {}, {}))
  BY <1>1, SmoothMounted DEF HeaderInit
<1>3. ui = [unread |-> {}, count |-> 0, query |-> "", timer |-> FALSE, searching |-> FALSE,
            results |-> {}, open |-> FALSE]
  BY <1>1 DEF HeaderInit
<1>4. HeaderCallFits(Call("poll", {}, {}), ui, srv)
  BY <1>3 DEF HeaderCallFits, Searched, Call, Pending
<1> QED BY <1>2, <1>3, <1>4 DEF HeaderWith, OnlyIn, NoneIn

LEMMA HeaderStep ==
  ASSUME ConsoleInv, HeaderKnown, HeaderNext, page' = page
  PROVE  HeaderKnown'
<1> SUFFICES ASSUME smooth' PROVE HeaderWith(calls', ui', srv')
  BY DEF HeaderKnown
<1> DEFINE Shape(u) ==
      u = [unread |-> u.unread, count |-> u.count, query |-> u.query, timer |-> u.timer,
           searching |-> u.searching, results |-> u.results, open |-> u.open]
<1>0. page = "header"
  BY DEF HeaderNext
<1>a. smooth
  BY DEF HeaderNext, PollNotifications, handleMarkRead, handleMarkAllRead, handleSearchChange,
         SearchTimer, handleSearchSelect, OpenSearch, HeaderColleague, fetchNotifications,
         MarkedRead, SearchArrived, Serve, Lose, Others, Send, End, NoCall
<1>b. HeaderWith(calls, ui, srv) /\ Shape(ui)
  BY <1>0, <1>a DEF HeaderKnown, HeaderWith
<1>c. ASSUME NEW op \in {"poll", "markRead"}, NEW arg, Send(op, arg, {}), ui' = ui, srv' = srv
      PROVE  HeaderWith(calls', ui', srv')
  <2>1. NoneIn(calls) /\ OnlyIn(calls', Call(op, arg, {}))
    BY <1>c, SmoothSend
  <2>a. ui.unread = srv /\ Searched(ui)
    BY <1>b, <2>1 DEF HeaderWith
  <2>b. Call(op, arg, {}).op = op /\ Call(op, arg, {}).ans = Pending
    BY Fields
  <2>2. HeaderCallFits(Call(op, arg, {}), ui, srv)
    BY <2>a, <2>b DEF HeaderCallFits
  <2> QED BY <1>b, <1>c, <2>1, <2>2 DEF HeaderWith, OnlyIn, NoneIn
<1>1. CASE PollNotifications
  BY <1>1, <1>c DEF PollNotifications
<1>2. CASE handleMarkRead
  BY <1>2, <1>c DEF handleMarkRead
<1>3. CASE handleMarkAllRead
  BY <1>3, <1>c DEF handleMarkAllRead
<1>4. CASE SearchTimer
  <2>1. /\ ui' = [ui EXCEPT !.timer = FALSE] /\ Send("search", {ui.query}, {}) /\ srv' = srv
    BY <1>4 DEF SearchTimer
  <2>2. NoneIn(calls) /\ OnlyIn(calls', Call("search", {ui.query}, {}))
    BY <2>1, SmoothSend
  <2>3. Shape(ui') /\ ui'.unread = ui.unread /\ ui'.query = ui.query
    BY <1>b, <2>1
  <2>a. ui.unread = srv
    BY <1>b, <2>2 DEF HeaderWith
  <2>b. /\ Call("search", {ui.query}, {}).op = "search"
        /\ Call("search", {ui.query}, {}).ans = Pending
        /\ Call("search", {ui.query}, {}).arg = {ui.query}
    BY Fields
  <2>4. HeaderCallFits(Call("search", {ui.query}, {}), ui', srv')
    BY <2>1, <2>3, <2>a, <2>b DEF HeaderCallFits
  <2> QED BY <2>2, <2>3, <2>4 DEF HeaderWith, OnlyIn, NoneIn
(* A step of the search that calls nothing. *)
<1>d. ASSUME Shape(ui'), ui'.unread = ui.unread, calls' = calls, srv' = srv,
             Searched(ui) => Searched(ui'),
             ~ui'.timer /\ ui'.query # "" => ~ui.timer /\ ui.query # "" /\ ui'.query = ui.query
      PROVE  HeaderWith(calls', ui', srv')
  <2>1. \A s \in Slot : calls[s] # Free => HeaderCallFits(calls[s], ui', srv)
    BY <1>b, <1>d DEF HeaderWith, HeaderCallFits
  <2> QED BY <1>b, <1>d, <2>1 DEF HeaderWith
<1>5. CASE handleSearchChange
  <2>1. PICK text : ui' = IF text = ""
             THEN [ui EXCEPT !.query = "", !.timer = FALSE, !.results = {}, !.open = FALSE]
             ELSE [ui EXCEPT !.query = text, !.timer = TRUE, !.searching = TRUE, !.open = TRUE]
    BY <1>5 DEF handleSearchChange
  <2>2. calls' = calls /\ srv' = srv
    BY <1>5 DEF handleSearchChange, NoCall
  <2>3. Shape(ui') /\ ui'.unread = ui.unread /\ (ui'.timer = TRUE \/ ui'.query = "")
    BY <1>b, <2>1
  <2> QED BY <1>d, <2>2, <2>3 DEF Searched
<1>6. CASE handleSearchSelect
  <2>1. ui' = [ui EXCEPT !.open = FALSE, !.query = ""] /\ calls' = calls /\ srv' = srv
    BY <1>6 DEF handleSearchSelect, NoCall
  <2>2. Shape(ui') /\ ui'.unread = ui.unread /\ ui'.query = ""
    BY <1>b, <2>1
  <2> QED BY <1>d, <2>1, <2>2 DEF Searched
<1>7. CASE OpenSearch
  <2>1. ui' = [ui EXCEPT !.open = ~@] /\ calls' = calls /\ srv' = srv
    BY <1>7 DEF OpenSearch, NoCall
  <2>2. /\ Shape(ui') /\ ui'.unread = ui.unread /\ ui'.query = ui.query /\ ui'.timer = ui.timer
        /\ ui'.results = ui.results /\ ui'.searching = ui.searching
    BY <1>b, <2>1
  <2> QED BY <1>d, <2>1, <2>2 DEF Searched
<1>8. CASE HeaderColleague
  BY <1>8 DEF HeaderColleague, Others
<1>9. ASSUME NEW s \in Slot, Lose(s) PROVE FALSE
  BY <1>9 DEF Lose
<1>10. ASSUME NEW s \in Slot, fetchNotifications(s) PROVE HeaderWith(calls', ui', srv')
  <2>1. InFlight(s) /\ srv' = srv /\ NoneIn(calls') /\ calls[s].op = "poll"
    BY <1>10, AwaitsIsInFlight, SmoothEnd DEF fetchNotifications, Awaits
  <2>2. HeaderCallFits(calls[s], ui, srv)
    BY <1>b, <2>1 DEF HeaderWith, InFlight
  <2>3. calls[s].ans = Ok(srv)
    BY <1>10, <2>1, <2>2, Fields DEF HeaderCallFits, fetchNotifications, Awaits
  <2>4. Succeeded(s) /\ calls[s].ans.data = srv
    BY <2>3, AnswerFields DEF Succeeded
  <2>5. ui' = [ui EXCEPT !.unread = srv, !.count = Cardinality(srv)]
    BY <1>10, <2>4 DEF fetchNotifications
  <2>6. /\ Shape(ui') /\ ui'.unread = srv /\ ui'.query = ui.query /\ ui'.timer = ui.timer
        /\ ui'.results = ui.results /\ ui'.searching = ui.searching
    BY <1>b, <2>5
  <2> QED BY <2>1, <2>2, <2>6 DEF HeaderWith, HeaderCallFits, Searched, NoneIn
<1>11. ASSUME NEW s \in Slot, MarkedRead(s) PROVE HeaderWith(calls', ui', srv')
  <2>1. InFlight(s) /\ srv' = srv /\ NoneIn(calls') /\ calls[s].op = "markRead"
    BY <1>11, AwaitsIsInFlight, SmoothEnd DEF MarkedRead, Awaits
  <2>2. HeaderCallFits(calls[s], ui, srv)
    BY <1>b, <2>1 DEF HeaderWith, InFlight
  <2>3. Succeeded(s) /\ srv = ui.unread \ calls[s].arg
    BY <1>11, <2>1, <2>2, Fields DEF HeaderCallFits, MarkedRead, Awaits, Succeeded
  <2>4. PICK n : ui' = [ui EXCEPT !.unread = @ \ calls[s].arg, !.count = n]
    BY <1>11, <2>3 DEF MarkedRead
  <2>5. /\ Shape(ui') /\ ui'.unread = srv /\ ui'.query = ui.query /\ ui'.timer = ui.timer
        /\ ui'.results = ui.results /\ ui'.searching = ui.searching
    BY <1>b, <2>3, <2>4
  <2> QED BY <2>1, <2>2, <2>5 DEF HeaderWith, HeaderCallFits, Searched, NoneIn
<1>12. ASSUME NEW s \in Slot, SearchArrived(s) PROVE HeaderWith(calls', ui', srv')
  <2>1. InFlight(s) /\ srv' = srv /\ NoneIn(calls') /\ calls[s].op = "search"
    BY <1>12, AwaitsIsInFlight, SmoothEnd DEF SearchArrived, Awaits
  <2>2. HeaderCallFits(calls[s], ui, srv)
    BY <1>b, <2>1 DEF HeaderWith, InFlight
  <2>3. Succeeded(s) /\ ui.unread = srv
    BY <1>12, <2>1, <2>2, Fields DEF HeaderCallFits, SearchArrived, Awaits, Succeeded
  <2>4. ui' = [ui EXCEPT !.results = calls[s].arg, !.searching = FALSE]
    BY <1>12, <2>3 DEF SearchArrived
  <2>5. /\ Shape(ui') /\ ui'.unread = srv /\ ui'.query = ui.query /\ ui'.timer = ui.timer
        /\ ui'.results = calls[s].arg /\ ui'.searching = FALSE
    BY <1>b, <2>3, <2>4
  <2> QED BY <2>1, <2>2, <2>5 DEF HeaderWith, HeaderCallFits, Searched, NoneIn
<1>13. ASSUME NEW s \in Slot, Serve(s, HeaderReplies(s)) PROVE HeaderWith(calls', ui', srv')
  <2> DEFINE c == calls'[s]
  <2>1. /\ InFlight(s) /\ ui' = ui /\ calls[s].ans = Pending
        /\ OnlyIn(calls', c) /\ c.op = calls[s].op /\ c.arg = calls[s].arg
    BY <1>13, SmoothServe
  <2>2. PICK r \in HeaderReplies(s) : srv' = r.rows /\ c.ans = r.ans
    BY <1>13, SmoothServe
  <2> HIDE DEF c
  <2>3. HeaderCallFits(calls[s], ui, srv)
    BY <1>b, <2>1 DEF HeaderWith, InFlight
  <2>4. HeaderCallFits(c, ui, srv')
    <3>1. CASE c.op = "poll"
      <4>1. srv' = srv /\ c.ans = Ok(srv)
        BY <2>1, <2>2, <3>1 DEF HeaderReplies, Reply
      <4> QED BY <2>1, <2>3, <3>1, <4>1 DEF HeaderCallFits
    <3>2. CASE c.op = "markRead"
      <4>1. srv' = srv \ c.arg /\ c.ans = Ok({})
        BY <2>1, <2>2, <3>2 DEF HeaderReplies, Reply
      <4>2. ui.unread = srv
        BY <2>1, <2>3, <3>2, Fields DEF HeaderCallFits
      <4>3. c.ans.state = "ok"
        BY <4>1, AnswerFields
      <4> QED BY <2>1, <2>3, <3>2, <4>1, <4>2, <4>3 DEF HeaderCallFits
    <3>3. CASE c.op = "search"
      <4>1. srv' = srv /\ c.ans = Ok({})
        BY <2>1, <2>2, <3>3 DEF HeaderReplies, Reply
      <4>2. c.ans.state = "ok"
        BY <4>1, AnswerFields
      <4> QED BY <2>1, <2>3, <3>3, <4>1, <4>2 DEF HeaderCallFits
    <3> QED BY <2>1, <2>3, <3>1, <3>2, <3>3 DEF HeaderCallFits
  <2> QED BY <1>b, <2>1, <2>4 DEF HeaderWith, OnlyIn, NoneIn
<1> QED BY <1>1, <1>2, <1>3, <1>4, <1>5, <1>6, <1>7, <1>8, <1>9, <1>10, <1>11, <1>12, <1>13
        DEF HeaderNext

-----------------------------------------------------------------------------
(* The lists.  What the proofs need of the tables: those that turn back to  *)
(* their first page ask for one page of rows, and so do those that cancel.  *)
LEMMA ResettingTables ==
  ASSUME page \in {"incidents", "audit"}
  PROVE  /\ List.paged = TRUE /\ List.cancels = FALSE /\ List.counts = TRUE
         /\ List.resets = TRUE /\ List.search = FALSE
<1> USE DEF List, ListPage, ListOf, Effect, Table
<1>1. CASE page = "incidents"
  BY <1>1 DEF IncidentsEffect, IncidentsTable
<1>2. CASE page = "audit"
  BY <1>2 DEF AuditEffect, AuditTable
<1> QED BY <1>1, <1>2

LEMMA CancellingTables ==
  ASSUME page \in {"alerts", "wallets"}
  PROVE  /\ List.paged = TRUE /\ List.cancels = TRUE /\ List.clears = TRUE
         /\ List.resets = FALSE /\ List.search = FALSE
<1> USE DEF List, ListPage, ListOf, Effect, Table
<1>1. CASE page = "alerts"
  BY <1>1 DEF AlertsEffect, AlertsTable
<1>2. CASE page = "wallets"
  BY <1>2 DEF WalletsEffect, WalletsTable
<1> QED BY <1>1, <1>2

(* Rows are counted by finitely many values of the filter. *)
LEMMA FewAreFinite ==
  ASSUME NEW a, NEW b, NEW c, NEW d, NEW e, NEW f, NEW g
  PROVE  IsFiniteSet({a, b, c, d, e, f, g})
<1>1. IsFiniteSet({a})
  BY FS_Singleton
<1>2. IsFiniteSet({a} \cup {b})
  BY <1>1, FS_AddElement
<1>3. IsFiniteSet(({a} \cup {b}) \cup {c})
  BY <1>2, FS_AddElement
<1>4. IsFiniteSet((({a} \cup {b}) \cup {c}) \cup {d})
  BY <1>3, FS_AddElement
<1>5. IsFiniteSet(((({a} \cup {b}) \cup {c}) \cup {d}) \cup {e})
  BY <1>4, FS_AddElement
<1>6. IsFiniteSet((((({a} \cup {b}) \cup {c}) \cup {d}) \cup {e}) \cup {f})
  BY <1>5, FS_AddElement
<1>7. IsFiniteSet(((((({a} \cup {b}) \cup {c}) \cup {d}) \cup {e}) \cup {f}) \cup {g})
  BY <1>6, FS_AddElement
<1>8. {a, b, c, d, e, f, g} = ((((({a} \cup {b}) \cup {c}) \cup {d}) \cup {e}) \cup {f}) \cup {g}
  OBVIOUS
<1> QED BY <1>7, <1>8

LEMMA OptionsAreFinite ==
  ASSUME NEW l \in DOMAIN ListPage
  PROVE  IsFiniteSet(ListPage[l].options)
<1> DEFINE O == ListPage[l].options
<1> SUFFICES IsFiniteSet(O)
  OBVIOUS
<1>1. CASE l = "cases"
  <2>1. O = {"open", "investigating", "escalated", "closed_no_action",
                               "closed_str_filed", "closed_str_filed", "closed_str_filed"}
    BY <1>1 DEF CasesTable, ListPage, ListOf, Table
  <2> HIDE DEF O
  <2> QED BY <2>1, FewAreFinite
<1>2. CASE l = "customers"
  <2>1. O = {"approved", "rejected", "initiated", "documents_uploaded",
                               "edd_required", "edd_required", "edd_required"}
    BY <1>2 DEF CustomersTable, ListPage, ListOf, Table
  <2> HIDE DEF O
  <2> QED BY <2>1, FewAreFinite
<1>3. CASE l \in {"alerts", "incidents"}
  <2>1. O = {"critical", "high", "medium", "low", "low", "low", "low"}
    BY <1>3 DEF AlertsTable, IncidentsTable, ListPage, ListOf, Table
  <2> HIDE DEF O
  <2> QED BY <2>1, FewAreFinite
<1>4. CASE l = "wallets"
  <2>1. O = {"low", "medium", "high", "severe", "severe", "severe", "severe"}
    BY <1>4 DEF WalletsTable, ListPage, ListOf, Table
  <2> HIDE DEF O
  <2> QED BY <2>1, FewAreFinite
<1>5. CASE l = "isars"
  <2>1. O = {"draft", "submitted_for_review", "approved", "rejected",
                               "filed_as_str", "filed_as_str", "filed_as_str"}
    BY <1>5 DEF IsarsTable, ListPage, ListOf, Table
  <2> HIDE DEF O
  <2> QED BY <2>1, FewAreFinite
<1>6. CASE l = "tenants"
  <2>1. O = {}
    BY <1>6 DEF TenantsTable, ListPage, ListOf, Table
  <2> HIDE DEF O
  <2> QED BY <2>1, FS_EmptySet
<1>7. CASE l = "audit"
  <2>1. O =
          {"screening.check", "isar.approve", "tenant.update", "tenant.create",
           "kyc.status_change", "screening.disposition", "case.create"}
    BY <1>7 DEF AuditTable, ListPage, ListOf, Table
  <2> HIDE DEF O
  <2> QED BY <2>1, FewAreFinite
<1> QED BY <1>1, <1>2, <1>3, <1>4, <1>5, <1>6, <1>7 DEF ListPage

LEMMA KindsAreFinite ==
  ASSUME NEW l \in DOMAIN ListPage
  PROVE  IsFiniteSet(Kind(l))
<1> DEFINE O == ListPage[l].options
<1>0. IsFiniteSet(O) /\ Cardinality(O) \in Nat
  BY OptionsAreFinite, FS_CardinalityType
<1>a. Kind(l) = IF Cardinality(O) < 2 THEN {"any"} ELSE CHOOSE k \in SUBSET O : Cardinality(k) = 2
  BY DEF Kind
<1> HIDE DEF O
<1>1. CASE Cardinality(O) < 2
  BY <1>1, <1>a, FS_Singleton
<1>2. CASE ~(Cardinality(O) < 2)
  <2>1. PICK x : x \in O
    BY <1>0, <1>2, FS_EmptySet
  <2>2. IsFiniteSet(O \ {x}) /\ Cardinality(O \ {x}) = Cardinality(O) - 1
    BY <1>0, <2>1, FS_RemoveElement
  <2>3. PICK y : y \in O \ {x}
    BY <1>0, <1>2, <2>2, FS_EmptySet
  <2>4. IsFiniteSet({x}) /\ Cardinality({x}) = 1
    BY FS_Singleton
  <2>5. Cardinality({x} \cup {y}) = 2
    BY <2>3, <2>4, FS_AddElement
  <2>6. \E k \in SUBSET O : Cardinality(k) = 2
    BY <2>1, <2>3, <2>5
  <2>7. Kind(l) \in SUBSET O
    BY <1>2, <1>a, <2>6
  <2> QED BY <1>0, <2>7, FS_Subset
<1> QED BY <1>1, <1>2

(* What a filter leaves is counted by a number. *)
LEMMA MatchingIsNat ==
  ASSUME NEW rows, IsFiniteSet(DOMAIN rows), \A k \in DOMAIN rows : rows[k] \in Nat, NEW filter
  PROVE  Matching(filter, rows) \in Nat
<1> DEFINE K == {k \in DOMAIN rows : filter \in {"", k}}
           f == [k \in K |-> {k} \X (1 .. rows[k])]
           T == {{kind} \X (1 .. rows[kind]) : kind \in K}
<1>0. 1 \in Int /\ \A k \in DOMAIN rows : rows[k] \in Int
  <2> HIDE DEF K, f, T
  <2> QED OBVIOUS
<1>1. IsFiniteSet(K)
  BY FS_Subset
<1>2. f \in Surjection(K, T)
  BY DEF Surjection
<1>3. IsFiniteSet(T)
  BY <1>1, <1>2, FS_Surjection
<1>4. ASSUME NEW t \in T PROVE IsFiniteSet(t)
  <2>1. PICK kind \in K : t = {kind} \X (1 .. rows[kind])
    OBVIOUS
  <2>2. IsFiniteSet({kind})
    BY FS_Singleton
  <2>3. 1 \in Int /\ rows[kind] \in Int
    BY <1>0, ZenonT(20)
  <2>4. IsFiniteSet(1 .. rows[kind])
    BY <2>3, FS_Interval
  <2> QED BY <2>1, <2>2, <2>4, FS_Product
<1>5. IsFiniteSet(UNION T)
  BY <1>3, <1>4, FS_UNION
<1> QED BY <1>5, FS_CardinalityType DEF Matching

(* A page up to the last has a row before which there is room. *)
LEMMA PageHasRow ==
  ASSUME NEW total \in Nat, NEW number \in Nat, number # 0, number # 1,
         number <= LargerOf(1, (total + PerPage - 1) \div PerPage)
  PROVE  (number - 1) * PerPage < total
<1>0. PerPage \in Nat /\ PerPage # 0
  BY ListAssumption
<1> DEFINE q == (total + PerPage - 1) \div PerPage
<1>1. q \in Int /\ q * PerPage <= total + PerPage - 1
  BY <1>0
<1>2. number <= q
  BY <1>0, <1>1 DEF LargerOf
<1> HIDE DEF q
<1>3. number * PerPage <= q * PerPage
  BY <1>0, <1>1, <1>2
<1>4. (number - 1) * PerPage = number * PerPage - PerPage
  BY <1>0
<1>5. number * PerPage \in Int /\ q * PerPage \in Int
  BY <1>0, <1>1
<1> QED BY <1>0, <1>1, <1>3, <1>4, <1>5

-----------------------------------------------------------------------------
(* While all goes smoothly a table knows the rows of its filter; where it   *)
(* turns back to its first page, it is on a page that has a row, if any.    *)
AskedOn(p, filter, number) ==
  [filter |-> filter, number |-> IF ListPage[p].paged THEN number ELSE 1]

ListGood(p, u, r) ==
  u.shown = AskedOn(p, u.filter, u.number) /\ u.total = Matching(u.filter, r)

ListCallFits(p, c, u, r) ==
  /\ c.op \in {"list", "create"}
  /\ c.op = "list" => /\ c.arg = AskedOn(p, u.filter, u.number)
                      /\ c.ans = Pending \/ c.ans = Ok(Matching(u.filter, r))
  /\ c.op = "create" => p \in {"cases", "tenants"} /\ (c.ans.state = "ok" \/ ListGood(p, u, r))

OnPage(u, r) == u.number = 1 \/ (u.number - 1) * PerPage < Matching(u.filter, r)

ListUi(u) ==
  /\ u = [filter |-> u.filter, next |-> u.next, number |-> u.number, search |-> u.search,
          total |-> u.total, error |-> u.error, shown |-> u.shown, createOpen |-> u.createOpen]
  /\ u.number \in Nat \ {0} /\ u.total \in Nat

ListPaged(p, u, r) ==
  /\ u.createOpen => p \in {"cases", "tenants"}
  /\ p \in {"incidents", "audit"} =>
       ~u.search /\ (u.next # u.filter => u.number = 1) /\ OnPage(u, r)

ListRows(r) == IsFiniteSet(DOMAIN r) /\ \A k \in DOMAIN r : r[k] \in Nat

ListWith(p, cs, u, r) ==
  /\ ListRows(r) /\ ListUi(u) /\ ListPaged(p, u, r)
  /\ NoneIn(cs) => ListGood(p, u, r)
  /\ \A s \in Slot : cs[s] # Free => ListCallFits(p, cs[s], u, r)

ListKnown == page \in DOMAIN ListPage /\ smooth => ListWith(page, calls, ui, srv)

LEMMA ListStarts ==
  ASSUME ConsoleInit, page \in DOMAIN ListPage => ListInit
  PROVE  ListKnown
<1> SUFFICES ASSUME page \in DOMAIN ListPage PROVE ListWith(page, calls, ui, srv)
  BY DEF ListKnown
<1> DEFINE first == [filter |-> "", number |-> 1]
<1>1. /\ ui = [filter |-> "", next |-> "", number |-> 1, search |-> FALSE, total |-> 0,
               error |-> FALSE, shown |-> first, createOpen |-> FALSE]
      /\ srv \in [Kind(page) -> 0 .. 2]
      /\ Mounted("list", first, {"loading"})
  BY DEF ListInit
<1>2. OnlyIn(calls, Call("list", first, {"loading"}))
  BY <1>1, SmoothMounted
<1>3. IsFiniteSet(Kind(page))
  BY KindsAreFinite
<1>4. ListRows(srv)
  <2>1. DOMAIN srv = Kind(page) /\ \A k \in Kind(page) : srv[k] \in 0 .. 2
    BY <1>1
  <2>2. 0 .. 2 \subseteq Nat
    OBVIOUS
  <2> QED BY <1>3, <2>1, <2>2 DEF ListRows
<1>a. /\ ui.number = 1 /\ ui.total = 0 /\ ui.next = ui.filter /\ ui.search = FALSE
      /\ ui.createOpen = FALSE
  BY <1>1
<1>5. ListUi(ui) /\ ListPaged(page, ui, srv)
  <2>1. ui = [filter |-> ui.filter, next |-> ui.next, number |-> ui.number,
              search |-> ui.search, total |-> ui.total, error |-> ui.error,
              shown |-> ui.shown, createOpen |-> ui.createOpen]
    BY <1>1
  <2>2. ListUi(ui)
    BY <1>a, <2>1 DEF ListUi
  <2> QED BY <1>a, <2>2 DEF ListPaged, OnPage
<1>6. AskedOn(page, ui.filter, ui.number) = first
  BY <1>1 DEF AskedOn
<1> HIDE DEF first
<1>7. ListCallFits(page, Call("list", first, {"loading"}), ui, srv)
  BY <1>6, Fields DEF ListCallFits
<1> QED BY <1>2, <1>4, <1>5, <1>7 DEF ListWith, OnlyIn, NoneIn

(* A load asks for what the page is on. *)
LEMMA ListLoads ==
  ASSUME ConsoleInv, smooth', Load(ui')
  PROVE  /\ smooth
         /\ \E flags : OnlyIn(calls', Call("list", AskedOn(page, ui'.filter, ui'.number), flags))
         /\ ~List.cancels => NoneIn(calls)
<1> DEFINE arg == AskedOn(page, ui'.filter, ui'.number)
           flags == IF List.raises THEN {"loading"} ELSE {}
<1>1. Load(ui') <=> IF List.cancels /\ {s \in Slot : InFlight(s)} # {}
                    THEN \E s \in {t \in Slot : InFlight(t)} : Replace(s, "list", arg)
                    ELSE Send("list", arg, flags)
  BY DEF Load, Asked, AskedOn, List
<1> HIDE DEF arg, flags
<1>2. CASE \E s \in Slot : InFlight(s) /\ Replace(s, "list", arg) /\ List.cancels
  BY <1>2, SmoothReplace DEF arg
<1>3. CASE Send("list", arg, flags)
  BY <1>3, SmoothSend DEF arg
<1> QED BY <1>1, <1>2, <1>3

(* ... and is answered by what is there. *)
LEMMA LoadIsAsked ==
  ASSUME NEW p, NEW cs, NEW u, NEW r, NEW flags,
         OnlyIn(cs, Call("list", AskedOn(p, u.filter, u.number), flags)),
         ListRows(r), ListUi(u), ListPaged(p, u, r)
  PROVE  ListWith(p, cs, u, r)
<1>1. ListCallFits(p, Call("list", AskedOn(p, u.filter, u.number), flags), u, r)
  BY Fields DEF ListCallFits
<1> QED BY <1>1 DEF ListWith, OnlyIn, NoneIn

(* A page of the pager, on a table that turns back, has a row. *)
LEMMA PagerIsOnPage ==
  ASSUME page \in {"incidents", "audit"}, NEW u, NEW number \in 1 .. TotalPages(u),
         u.total \in Nat, ~u.search
  PROVE  number \in Nat \ {0} /\ (number = 1 \/ (number - 1) * PerPage < u.total)
<1>1. List.counts = TRUE
  BY ResettingTables
<1>2. PagerTotal(u) = u.total
  BY <1>1 DEF PagerTotal
<1>3. PerPage \in Nat /\ PerPage # 0
  BY ListAssumption
<1>4. TotalPages(u) = LargerOf(1, (u.total + PerPage - 1) \div PerPage)
  BY <1>2 DEF TotalPages
<1>5. LargerOf(1, (u.total + PerPage - 1) \div PerPage) \in Int
  BY <1>3 DEF LargerOf
<1>6. number \in Nat /\ number # 0 /\ number <= LargerOf(1, (u.total + PerPage - 1) \div PerPage)
  BY <1>4, <1>5
<1> QED BY <1>6, PageHasRow

(* The pager has a number of pages. *)
LEMMA PagesAreCounted ==
  ASSUME NEW u, u.total \in Nat, NEW number \in 1 .. TotalPages(u)
  PROVE  number \in Nat \ {0}
<1>1. PerPage \in Nat /\ PerPage # 0 /\ Limit \in Nat
  BY ListAssumption
<1>2. PagerTotal(u) \in Nat
  BY <1>1 DEF PagerTotal, Found, Loaded, SmallerOf
<1>3. TotalPages(u) \in Int
  BY <1>1, <1>2 DEF TotalPages, LargerOf
<1> QED BY <1>3

LEMMA ChooseFilterKnows ==
  ASSUME ConsoleInv, ListKnown, ChooseFilter, page \in DOMAIN ListPage, smooth'
  PROVE  ListWith(page, calls', ui', srv')
<1>1. PICK filter :
        /\ filter # ui.filter
        /\ LET number == IF List.resets THEN 1 ELSE ui.number
           IN ui' = [ui EXCEPT !.next = filter, !.number = number,
                               !.filter = IF List.own \/ number = ui.number THEN filter ELSE @]
        /\ Load(ui') /\ srv' = srv
  BY DEF ChooseFilter
<1>2. PICK flags : /\ smooth
                   /\ OnlyIn(calls', Call("list", AskedOn(page, ui'.filter, ui'.number), flags))
  BY <1>1, ListLoads
<1>3. ListRows(srv) /\ ListUi(ui) /\ ListPaged(page, ui, srv)
  BY <1>2 DEF ListKnown, ListWith
<1> DEFINE number == IF List.resets THEN 1 ELSE ui.number
<1>4. /\ ui' = [ui EXCEPT !.next = filter, !.number = number,
                          !.filter = IF List.own \/ number = ui.number THEN filter ELSE @]
      /\ number \in Nat \ {0}
  BY <1>1, <1>3 DEF ListUi
<1>5. page \in {"incidents", "audit"} => number = 1
  BY ResettingTables
<1> HIDE DEF number
<1>6. /\ ui'.number = number /\ ui'.next = filter /\ ui'.search = ui.search /\ ui'.total = ui.total
      /\ ui'.createOpen = ui.createOpen /\ ui'.error = ui.error /\ ui'.shown = ui.shown
  BY <1>3, <1>4 DEF ListUi
<1>7. ui' = [filter |-> ui'.filter, next |-> ui'.next, number |-> ui'.number,
             search |-> ui'.search, total |-> ui'.total, error |-> ui'.error,
             shown |-> ui'.shown, createOpen |-> ui'.createOpen]
  BY <1>3, <1>4 DEF ListUi
<1>8. ListUi(ui')
  BY <1>3, <1>4, <1>6, <1>7 DEF ListUi
<1>9. ListPaged(page, ui', srv)
  BY <1>3, <1>5, <1>6 DEF ListPaged, OnPage
<1> QED BY <1>1, <1>2, <1>3, <1>8, <1>9, LoadIsAsked

LEMMA AddressChangedKnows ==
  ASSUME ConsoleInv, ListKnown, AddressChanged, page \in DOMAIN ListPage, smooth'
  PROVE  ListWith(page, calls', ui', srv')
<1>1. ui' = [ui EXCEPT !.filter = ui.next] /\ ui.next # ui.filter /\ Load(ui') /\ srv' = srv
  BY DEF AddressChanged
<1>2. PICK flags : /\ smooth
                   /\ OnlyIn(calls', Call("list", AskedOn(page, ui'.filter, ui'.number), flags))
  BY <1>1, ListLoads
<1>3. ListRows(srv) /\ ListUi(ui) /\ ListPaged(page, ui, srv)
  BY <1>2 DEF ListKnown, ListWith
<1>6. /\ ui'.number = ui.number /\ ui'.next = ui.next /\ ui'.search = ui.search
      /\ ui'.createOpen = ui.createOpen /\ ui'.total = ui.total
  BY <1>1, <1>3 DEF ListUi
<1>7. ui' = [filter |-> ui'.filter, next |-> ui'.next, number |-> ui'.number,
             search |-> ui'.search, total |-> ui'.total, error |-> ui'.error,
             shown |-> ui'.shown, createOpen |-> ui'.createOpen]
  BY <1>1, <1>3 DEF ListUi
<1>8. ListUi(ui')
  BY <1>3, <1>6, <1>7 DEF ListUi
<1>9. ListPaged(page, ui', srv)
  BY <1>1, <1>3, <1>6 DEF ListPaged, OnPage
<1> QED BY <1>1, <1>2, <1>3, <1>8, <1>9, LoadIsAsked

LEMMA TurnPageKnows ==
  ASSUME ConsoleInv, ListKnown, TurnPage, page \in DOMAIN ListPage, smooth'
  PROVE  ListWith(page, calls', ui', srv')
<1>1. PICK number \in 1 .. TotalPages(ui) : ui' = [ui EXCEPT !.number = number]
  BY DEF TurnPage
<1>2. srv' = srv /\ ui.next = ui.filter /\ (IF List.paged THEN Load(ui') ELSE NoCall)
  BY DEF TurnPage
<1>3. smooth
  BY <1>2, ListLoads DEF NoCall
<1>4. ListWith(page, calls, ui, srv) /\ ListRows(srv) /\ ListUi(ui) /\ ListPaged(page, ui, srv)
  BY <1>3 DEF ListKnown, ListWith
<1>5. number \in Nat \ {0}
  BY <1>4, PagesAreCounted DEF ListUi
<1>6. /\ ui'.number = number /\ ui'.next = ui.next /\ ui'.search = ui.search
      /\ ui'.createOpen = ui.createOpen /\ ui'.total = ui.total /\ ui'.filter = ui.filter
      /\ ui'.shown = ui.shown
  BY <1>1, <1>4 DEF ListUi
<1>7. ui' = [filter |-> ui'.filter, next |-> ui'.next, number |-> ui'.number,
             search |-> ui'.search, total |-> ui'.total, error |-> ui'.error,
             shown |-> ui'.shown, createOpen |-> ui'.createOpen]
  BY <1>1, <1>4 DEF ListUi
<1>8. ListUi(ui')
  BY <1>4, <1>5, <1>6, <1>7 DEF ListUi
<1>9. ListPaged(page, ui', srv)
  <2>1. CASE page \in {"incidents", "audit"}
    <3>1. List.paged = TRUE /\ List.cancels = FALSE
      BY <2>1, ResettingTables
    <3>2. NoneIn(calls)
      BY <1>2, <3>1, ListLoads
    <3>3. ui.total = Matching(ui.filter, srv)
      BY <1>4, <3>2 DEF ListWith, ListGood
    <3>4. ui.total \in Nat /\ ~ui.search
      BY <1>4, <2>1 DEF ListUi, ListPaged
    <3>5. number = 1 \/ (number - 1) * PerPage < ui.total
      BY <2>1, <3>4, PagerIsOnPage
    <3>6. OnPage(ui', srv)
      BY <1>6, <3>3, <3>5 DEF OnPage
    <3> QED BY <1>2, <1>4, <1>6, <2>1, <3>6 DEF ListPaged
  <2>2. CASE page \notin {"incidents", "audit"}
    BY <1>4, <1>6, <2>2 DEF ListPaged
  <2> QED BY <2>1, <2>2
<1>10. CASE List.paged
  <2>1. PICK flags : OnlyIn(calls', Call("list", AskedOn(page, ui'.filter, ui'.number), flags))
    BY <1>2, <1>10, ListLoads
  <2> QED BY <1>2, <1>4, <1>8, <1>9, <2>1, LoadIsAsked
<1>11. CASE ~List.paged
  <2>1. calls' = calls
    BY <1>2, <1>11 DEF NoCall
  <2>2. AskedOn(page, ui'.filter, ui'.number) = AskedOn(page, ui.filter, ui.number)
    BY <1>6, <1>11 DEF AskedOn, List
  <2>3. ListGood(page, ui, srv) => ListGood(page, ui', srv)
    BY <1>6, <2>2 DEF ListGood
  <2>4. \A s \in Slot : calls[s] # Free => ListCallFits(page, calls[s], ui', srv)
    BY <1>4, <1>6, <2>2, <2>3 DEF ListWith, ListCallFits
  <2> QED BY <1>2, <1>4, <1>8, <1>9, <2>1, <2>3, <2>4 DEF ListWith
<1> QED BY <1>10, <1>11

(* Hooks that change no filter and no page. *)
LEMMA SameListKnows ==
  ASSUME NEW p, NEW cs, NEW u, NEW v, NEW r, ListWith(p, cs, u, r),
         \/ \E on : v = [u EXCEPT !.search = on] /\ p \notin {"incidents", "audit"}
         \/ \E on : v = [u EXCEPT !.createOpen = on] /\ p \in {"cases", "tenants"}
  PROVE  ListWith(p, cs, v, r)
<1>1. ListUi(u) /\ ListPaged(p, u, r)
  BY DEF ListWith
<1>2. /\ v.number = u.number /\ v.next = u.next /\ v.total = u.total /\ v.filter = u.filter
      /\ v.shown = u.shown
  BY <1>1 DEF ListUi
<1>3. v = [filter |-> v.filter, next |-> v.next, number |-> v.number,
           search |-> v.search, total |-> v.total, error |-> v.error,
           shown |-> v.shown, createOpen |-> v.createOpen]
  BY <1>1 DEF ListUi
<1>4. ListUi(v)
  BY <1>1, <1>2, <1>3 DEF ListUi
<1>5. ListPaged(p, v, r)
  <2>1. CASE \E on : v = [u EXCEPT !.search = on] /\ p \notin {"incidents", "audit"}
    <3>1. v.createOpen = u.createOpen
      BY <1>1, <2>1 DEF ListUi
    <3> QED BY <1>1, <2>1, <3>1 DEF ListPaged
  <2>2. CASE p \in {"cases", "tenants"}
    BY <2>2 DEF ListPaged
  <2> QED BY <2>1, <2>2
<1>6. ListGood(p, u, r) => ListGood(p, v, r)
  BY <1>2 DEF ListGood
<1>7. \A s \in Slot : cs[s] # Free => ListCallFits(p, cs[s], v, r)
  BY <1>2, <1>6 DEF ListWith, ListCallFits
<1> QED BY <1>4, <1>5, <1>6, <1>7 DEF ListWith

LEMMA ListStep ==
  ASSUME ConsoleInv, ListKnown, ListNext, page' = page
  PROVE  ListKnown'
<1> SUFFICES ASSUME smooth' PROVE ListWith(page, calls', ui', srv')
  BY DEF ListKnown
<1>0. page \in DOMAIN ListPage
  BY DEF ListNext
<1>1. CASE ChooseFilter \/ AddressChanged \/ TurnPage
  BY <1>0, <1>1, ChooseFilterKnows, AddressChangedKnows, TurnPageKnows
<1>2. CASE Search \/ SetCreateOpen
  <2>1. calls' = calls /\ smooth /\ srv' = srv
    BY <1>2 DEF Search, SetCreateOpen, NoCall
  <2>2. ListWith(page, calls, ui, srv)
    BY <1>0, <2>1 DEF ListKnown
  <2>3. CASE Search
    <3>1. ui' = [ui EXCEPT !.search = ~ui.search] /\ page \notin {"incidents", "audit"}
      BY <2>3, ResettingTables DEF Search
    <3> QED BY <2>1, <2>2, <3>1, SameListKnows
  <2>4. CASE SetCreateOpen
    <3>1. ui' = [ui EXCEPT !.createOpen = ~ui.createOpen] /\ page \in {"cases", "tenants"}
      BY <2>4 DEF SetCreateOpen
    <3> QED BY <2>1, <2>2, <3>1, SameListKnows
  <2> QED BY <1>2, <2>3, <2>4
<1>3. CASE handleCreate
  <2>1. PICK flag : Send("create", "none", {flag})
    BY <1>3 DEF handleCreate
  <2>2. smooth /\ NoneIn(calls) /\ OnlyIn(calls', Call("create", "none", {flag}))
    BY <2>1, SmoothSend
  <2>3. ListWith(page, calls, ui, srv) /\ ListGood(page, ui, srv)
    BY <1>0, <2>2 DEF ListKnown, ListWith
  <2>4. page \in {"cases", "tenants"}
    BY <1>3, <2>3 DEF handleCreate, ListWith, ListPaged
  <2>5. srv' = srv /\ (ui' = ui \/ ui' = [ui EXCEPT !.createOpen = FALSE])
    BY <1>3 DEF handleCreate
  <2>6. ListWith(page, calls, ui', srv)
    BY <2>3, <2>4, <2>5, SameListKnows
  <2>7. ListGood(page, ui', srv)
    BY <2>2, <2>6 DEF ListWith
  <2>8. ListCallFits(page, Call("create", "none", {flag}), ui', srv)
    BY <2>4, <2>7, Fields DEF ListCallFits
  <2> QED BY <2>2, <2>5, <2>6, <2>8 DEF ListWith, OnlyIn, NoneIn
<1>4. CASE ListColleague
  BY <1>4 DEF ListColleague, Others
<1>5. ASSUME NEW s \in Slot, Lose(s) PROVE FALSE
  BY <1>5 DEF Lose
<1>6. ASSUME NEW s \in Slot, ListArrived(s) PROVE ListWith(page, calls', ui', srv')
  <2>1. InFlight(s) /\ smooth /\ srv' = srv /\ NoneIn(calls')
    BY <1>6, AwaitsIsInFlight, SmoothEnd DEF ListArrived
  <2>2. ListWith(page, calls, ui, srv) /\ ListCallFits(page, calls[s], ui, srv)
    BY <1>0, <2>1 DEF ListKnown, ListWith, InFlight
  <2>3. calls[s].op = "list" /\ calls[s].ans.state # "pending"
    BY <1>6 DEF ListArrived, Awaits
  <2>4. /\ calls[s].ans = Ok(Matching(ui.filter, srv))
        /\ calls[s].arg = AskedOn(page, ui.filter, ui.number)
    BY <2>2, <2>3, Fields DEF ListCallFits
  <2>5. Succeeded(s) /\ calls[s].ans.data = Matching(ui.filter, srv)
    BY <2>4, AnswerFields DEF Succeeded
  <2>6. ui' = [ui EXCEPT !.total = Matching(ui.filter, srv),
                         !.shown = AskedOn(page, ui.filter, ui.number), !.error = FALSE]
    BY <1>6, <2>4, <2>5 DEF ListArrived
  <2>7. Matching(ui.filter, srv) \in Nat
    BY <2>2, MatchingIsNat DEF ListWith, ListRows
  <2>8. ListUi(ui) /\ ListPaged(page, ui, srv)
    BY <2>2 DEF ListWith
  <2>9. /\ ui'.number = ui.number /\ ui'.next = ui.next /\ ui'.filter = ui.filter
        /\ ui'.createOpen = ui.createOpen /\ ui'.search = ui.search
        /\ ui'.total = Matching(ui.filter, srv)
        /\ ui'.shown = AskedOn(page, ui.filter, ui.number)
    BY <2>6, <2>8 DEF ListUi
  <2>10. ui' = [filter |-> ui'.filter, next |-> ui'.next, number |-> ui'.number,
                search |-> ui'.search, total |-> ui'.total, error |-> ui'.error,
                shown |-> ui'.shown, createOpen |-> ui'.createOpen]
    BY <2>6, <2>8 DEF ListUi
  <2>11. ListUi(ui')
    BY <2>7, <2>8, <2>9, <2>10 DEF ListUi
  <2>12. ListPaged(page, ui', srv) /\ ListGood(page, ui', srv)
    BY <2>8, <2>9 DEF ListPaged, OnPage, ListGood
  <2> QED BY <2>1, <2>2, <2>11, <2>12 DEF ListWith, NoneIn
<1>7. ASSUME NEW s \in Slot, RowCreated(s) PROVE ListWith(page, calls', ui', srv')
  <2>1. InFlight(s) /\ calls[s].op = "create" /\ calls[s].ans.state # "pending"
    BY <1>7, AwaitsIsInFlight DEF RowCreated, Awaits
  <2>2. CASE ~Succeeded(s)
    <3>1. ui' = ui /\ srv' = srv /\ smooth /\ NoneIn(calls')
      BY <1>7, <2>1, <2>2, SmoothEnd DEF RowCreated
    <3>2. ListWith(page, calls, ui, srv) /\ ListCallFits(page, calls[s], ui, srv)
      BY <1>0, <2>1, <3>1 DEF ListKnown, ListWith, InFlight
    <3>3. ListGood(page, ui, srv)
      BY <2>1, <2>2, <3>2 DEF ListCallFits, Succeeded
    <3> QED BY <3>1, <3>2, <3>3 DEF ListWith, NoneIn
  <2>3. CASE Succeeded(s)
    <3>1. page # "cases"
      BY <1>0, <1>7, <2>3 DEF RowCreated, Leave
    <3>2. /\ ui' = [ui EXCEPT !.createOpen = FALSE] /\ srv' = srv
          /\ EndThen(s, "list", Asked(ui.filter, ui.number), {"loading"})
      BY <1>7, <2>3, <3>1 DEF RowCreated
    <3>3. smooth /\ OnlyIn(calls', Call("list", AskedOn(page, ui.filter, ui.number), {"loading"}))
      BY <2>1, <3>2, SmoothEndThen DEF Asked, AskedOn, List
    <3>4. ListWith(page, calls, ui, srv) /\ page \in {"cases", "tenants"}
      BY <1>0, <2>1, <3>3 DEF ListKnown, ListWith, ListCallFits, InFlight
    <3>5. ListWith(page, calls, ui', srv)
      BY <3>2, <3>4, SameListKnows
    <3>6. ui'.filter = ui.filter /\ ui'.number = ui.number
      BY <3>2, <3>4 DEF ListWith, ListUi
    <3>7. ListRows(srv) /\ ListUi(ui') /\ ListPaged(page, ui', srv)
      BY <3>5 DEF ListWith
    <3> QED BY <3>2, <3>3, <3>6, <3>7, LoadIsAsked
  <2> QED BY <2>2, <2>3
<1>8. ASSUME NEW s \in Slot, Serve(s, ListReplies(s)) PROVE ListWith(page, calls', ui', srv')
  <2> DEFINE c == calls'[s]
  <2>1. /\ smooth /\ InFlight(s) /\ ui' = ui
        /\ OnlyIn(calls', c) /\ c.op = calls[s].op /\ c.arg = calls[s].arg
    BY <1>8, SmoothServe
  <2>2. PICK r \in ListReplies(s) : srv' = r.rows /\ c.ans = r.ans
    BY <1>8, SmoothServe
  <2> HIDE DEF c
  <2>3. ListWith(page, calls, ui, srv) /\ ListCallFits(page, calls[s], ui, srv)
    BY <1>0, <2>1 DEF ListKnown, ListWith, InFlight
  <2>4. CASE c.op = "list"
    <3>1. c.arg = AskedOn(page, ui.filter, ui.number)
      BY <2>1, <2>3, <2>4 DEF ListCallFits
    <3>2. c.arg.filter = ui.filter
      BY <3>1 DEF AskedOn
    <3>3. srv' = srv /\ c.ans = Ok(Matching(ui.filter, srv))
      BY <2>1, <2>2, <2>4, <3>2 DEF ListReplies, Reply
    <3>4. ListCallFits(page, c, ui, srv)
      BY <2>4, <3>1, <3>3 DEF ListCallFits
    <3> QED BY <2>1, <2>3, <3>3, <3>4 DEF ListWith, OnlyIn, NoneIn
  <2>5. CASE c.op = "create"
    <3>1. page \in {"cases", "tenants"}
      BY <2>1, <2>3, <2>5 DEF ListCallFits
    <3>2. \/ srv' = srv
          \/ /\ c.ans = Ok("row")
             /\ \E k \in DOMAIN srv : srv' = [srv EXCEPT ![k] = @ + 1]
      BY <2>1, <2>2, <2>5 DEF ListReplies, Reply, Refuse
    <3>3. ListRows(srv')
      <4>1. ListRows(srv)
        BY <2>3 DEF ListWith
      <4>2. ASSUME NEW k \in DOMAIN srv, srv' = [srv EXCEPT ![k] = @ + 1] PROVE ListRows(srv')
        <5>1. DOMAIN srv' = DOMAIN srv
          BY <4>2
        <5>2. \A l \in DOMAIN srv : srv'[l] \in Nat
          BY <4>1, <4>2 DEF ListRows
        <5> QED BY <4>1, <5>1, <5>2 DEF ListRows
      <4> QED BY <3>2, <4>1, <4>2
    <3>4. ListPaged(page, ui, srv')
      BY <2>3, <3>1 DEF ListWith, ListPaged
    <3>5. c.ans.state = "ok" \/ ListGood(page, ui, srv')
      <4>1. CASE srv' = srv
        <5>1. calls[s].ans = Pending
          BY <1>8, SmoothServe
        <5>2. ListGood(page, ui, srv)
          BY <2>1, <2>3, <2>5, <5>1, Fields DEF ListCallFits
        <5> QED BY <4>1, <5>2
      <4> QED BY <3>2, <4>1, AnswerFields
    <3>6. ListCallFits(page, c, ui, srv')
      BY <2>5, <3>1, <3>5 DEF ListCallFits
    <3> QED BY <2>1, <2>3, <3>3, <3>4, <3>6 DEF ListWith, OnlyIn, NoneIn
  <2> QED BY <2>1, <2>3, <2>4, <2>5 DEF ListCallFits
<1> QED BY <1>1, <1>2, <1>3, <1>4, <1>5, <1>6, <1>7, <1>8 DEF ListNext

-----------------------------------------------------------------------------
(* Alerts and wallets, however calls overlap: a load drops the one before,  *)
(* so that one at most is under way, and it asks for what the page is on.   *)
AskedUi(u) ==
  /\ u = [filter |-> u.filter, next |-> u.next, number |-> u.number, search |-> u.search,
          total |-> u.total, error |-> u.error, shown |-> u.shown, createOpen |-> u.createOpen]
  /\ u.createOpen = FALSE

AskedWith(p, cs, u) ==
  /\ AskedUi(u)
  /\ \A s, t \in Slot : cs[s] # Free /\ cs[t] # Free => s = t
  /\ \A s \in Slot : cs[s] # Free =>
       cs[s].op = "list" /\ cs[s].arg = AskedOn(p, u.filter, u.number)
  /\ NoneIn(cs) => u.shown = AskedOn(p, u.filter, u.number) \/ u.total = 0

AskedInv == page \in {"alerts", "wallets"} => AskedWith(page, calls, ui)

LEMMA AskedStarts ==
  ASSUME ConsoleInit, page \in DOMAIN ListPage => ListInit
  PROVE  AskedInv
<1> SUFFICES ASSUME page \in {"alerts", "wallets"} PROVE AskedWith(page, calls, ui)
  BY DEF AskedInv
<1> DEFINE first == [filter |-> "", number |-> 1]
<1>0. page \in DOMAIN ListPage
  BY DEF ListPage
<1>1. /\ ui = [filter |-> "", next |-> "", number |-> 1, search |-> FALSE, total |-> 0,
               error |-> FALSE, shown |-> first, createOpen |-> FALSE]
      /\ Mounted("list", first, {"loading"})
  BY <1>0 DEF ListInit
<1>2. PICK s0 \in Slot : calls = [s \in Slot |-> IF s = s0 THEN Call("list", first, {"loading"}) ELSE Free]
  BY <1>1 DEF Mounted
<1>3. calls[s0] = Call("list", first, {"loading"}) /\ \A s \in Slot \ {s0} : calls[s] = Free
  BY <1>2
<1>4. AskedOn(page, ui.filter, ui.number) = first
  BY <1>1 DEF AskedOn
<1>5. AskedUi(ui)
  BY <1>1 DEF AskedUi
<1> HIDE DEF first
<1> QED BY <1>3, <1>4, <1>5, Fields DEF AskedWith, NoneIn

(* A load leaves one call under way, whatever was. *)
LEMMA AskedLoads ==
  ASSUME ConsoleInv, AskedInv, page \in {"alerts", "wallets"}, Load(ui'), AskedUi(ui')
  PROVE  AskedWith(page, calls', ui')
<1> DEFINE arg == AskedOn(page, ui'.filter, ui'.number)
           flags == IF List.raises THEN {"loading"} ELSE {}
<1>1. Load(ui') <=> IF List.cancels /\ {s \in Slot : InFlight(s)} # {}
                    THEN \E s \in {t \in Slot : InFlight(t)} : Replace(s, "list", arg)
                    ELSE Send("list", arg, flags)
  BY DEF Load, Asked, AskedOn, List
<1>2. List.cancels = TRUE
  BY CancellingTables
<1> HIDE DEF flags
<1>3. \A s, t \in Slot : InFlight(s) /\ InFlight(t) => s = t
  BY DEF AskedInv, AskedWith, InFlight
<1>4. PICK s \in Slot :
        /\ \E f : calls' = [calls EXCEPT ![s] = Call("list", arg, f)]
        /\ \A t \in Slot \ {s} : ~InFlight(t)
  <2>1. CASE {s \in Slot : InFlight(s)} # {}
    BY <1>1, <1>2, <1>3, <2>1 DEF Replace
  <2>2. CASE {s \in Slot : InFlight(s)} = {}
    BY <1>1, <2>2 DEF Send
  <2> QED BY <2>1, <2>2
<1>5. PICK f : calls' = [calls EXCEPT ![s] = Call("list", arg, f)]
  BY <1>4
<1> HIDE DEF arg
<1>6. calls'[s] = Call("list", arg, f) /\ \A t \in Slot \ {s} : calls'[t] = calls[t]
  BY <1>5, NewCall DEF ConsoleInv, CallsInv
<1>7. \A t \in Slot \ {s} : calls'[t] = Free
  BY <1>4, <1>6 DEF InFlight
<1> QED BY <1>6, <1>7, Fields DEF AskedWith, NoneIn, arg

LEMMA AskedStep ==
  ASSUME ConsoleInv, AskedInv, ListNext, page' = page
  PROVE  AskedInv'
<1> SUFFICES ASSUME page \in {"alerts", "wallets"} PROVE AskedWith(page, calls', ui')
  BY DEF AskedInv
<1>0. AskedWith(page, calls, ui) /\ AskedUi(ui)
  BY DEF AskedInv, AskedWith
<1>a. /\ List.resets = FALSE /\ List.search = FALSE /\ List.paged = TRUE /\ List.clears = TRUE
  BY CancellingTables
<1>1. CASE ChooseFilter
  <2>1. PICK filter : /\ ui' = [ui EXCEPT !.next = filter, !.number = ui.number, !.filter = filter]
                      /\ Load(ui')
    BY <1>1, <1>a DEF ChooseFilter
  <2>2. AskedUi(ui')
    BY <1>0, <2>1 DEF AskedUi
  <2> QED BY <2>1, <2>2, AskedLoads
<1>2. CASE AddressChanged
  <2>1. ui' = [ui EXCEPT !.filter = ui.next] /\ Load(ui')
    BY <1>2 DEF AddressChanged
  <2>2. AskedUi(ui')
    BY <1>0, <2>1 DEF AskedUi
  <2> QED BY <2>1, <2>2, AskedLoads
<1>3. CASE TurnPage
  <2>1. PICK number : ui' = [ui EXCEPT !.number = number]
    BY <1>3 DEF TurnPage
  <2>2. Load(ui')
    BY <1>3, <1>a DEF TurnPage
  <2>3. AskedUi(ui')
    BY <1>0, <2>1 DEF AskedUi
  <2> QED BY <2>2, <2>3, AskedLoads
<1>4. CASE ListColleague
  <2>1. calls' = calls /\ ui' = ui
    BY <1>4 DEF ListColleague, Others
  <2> QED BY <1>0, <2>1
<1>5. CASE Search \/ SetCreateOpen \/ handleCreate
  <2>1. ui.createOpen = FALSE
    BY <1>0 DEF AskedUi
  <2> QED BY <1>5, <1>a, <2>1 DEF Search, SetCreateOpen, handleCreate
<1>6. ASSUME NEW s \in Slot, ListArrived(s) PROVE AskedWith(page, calls', ui')
  <2>1. InFlight(s) /\ End(s)
    BY <1>6, AwaitsIsInFlight DEF ListArrived
  <2>2. calls'[s] = Free /\ \A t \in Slot \ {s} : calls'[t] = calls[t]
    BY <2>1, EndedCall DEF End, ConsoleInv
  <2>3. \A t \in Slot \ {s} : calls'[t] = Free
    BY <1>0, <2>1, <2>2 DEF AskedWith, InFlight
  <2>4. calls[s].arg = AskedOn(page, ui.filter, ui.number)
    BY <1>0, <2>1 DEF AskedWith, InFlight
  <2>5. \/ \E n : ui' = [ui EXCEPT !.total = n, !.shown = calls[s].arg, !.error = FALSE]
        \/ ui' = [ui EXCEPT !.total = 0, !.error = TRUE]
    BY <1>6, <1>a DEF ListArrived
  <2>6. /\ AskedUi(ui') /\ ui'.filter = ui.filter /\ ui'.number = ui.number
        /\ ui'.shown = calls[s].arg \/ ui'.total = 0
    BY <1>0, <2>5 DEF AskedUi
  <2> QED BY <2>2, <2>3, <2>4, <2>6 DEF AskedWith
<1>7. ASSUME NEW s \in Slot, RowCreated(s) PROVE FALSE
  <2>1. InFlight(s) /\ calls[s].op = "create"
    BY <1>7, AwaitsIsInFlight DEF RowCreated, Awaits
  <2> QED BY <1>0, <2>1 DEF AskedWith, InFlight
<1>8. ASSUME NEW s \in Slot, Serve(s, ListReplies(s)) \/ Lose(s)
      PROVE  AskedWith(page, calls', ui')
  <2>1. /\ InFlight(s) /\ ui' = ui
        /\ \A t \in Slot : \/ calls'[t] = calls[t]
                           \/ t = s /\ calls'[t].op = calls[t].op /\ calls'[t].arg = calls[t].arg
    BY <1>8, EachServe, EachLose
  <2>2. \A t \in Slot : calls'[t] # Free => calls[t] # Free
    BY <2>1 DEF InFlight
  <2>3. ~NoneIn(calls')
    <3>1. calls[s].op = "list"
      BY <1>0, <2>1 DEF AskedWith, InFlight
    <3>2. calls'[s].op = "list"
      BY <2>1, <3>1
    <3> QED BY <3>2 DEF NoneIn, Free
  <2> QED BY <1>0, <2>1, <2>2, <2>3 DEF AskedWith
<1> QED BY <1>1, <1>2, <1>3, <1>4, <1>5, <1>6, <1>7, <1>8 DEF ListNext

(* What the tables promise. *)
LEMMA ListIsKnown ==
  ASSUME ListKnown, AskedInv, page \in DOMAIN ListPage
  PROVE  ListFresh /\ ListIsAsked /\ ListNotStranded
<1>0. Quiet => NoneIn(calls)
  BY DEF Quiet, NoneIn, InFlight
<1>1. ListFresh
  BY <1>0 DEF ListFresh, ListKnown, ListWith, ListGood, Asked, AskedOn, List
<1>2. ListIsAsked
  BY <1>0 DEF ListIsAsked, AskedInv, AskedWith, Asked, AskedOn, List
<1>3. ASSUME page \in {"incidents", "audit"}, smooth, Quiet
      PROVE  HasRows(ui) <=> Matching(ui.filter, srv) > 0
  <2> DEFINE total == Matching(ui.filter, srv)
  <2>1. /\ ListUi(ui) /\ ListPaged(page, ui, srv) /\ ListGood(page, ui, srv)
        /\ total \in Nat
    BY <1>0, <1>3, MatchingIsNat DEF ListKnown, ListWith, ListRows
  <2>2. List.paged = TRUE
    BY <1>3, ResettingTables
  <2>3. ui.shown.number = ui.number /\ ui.total = total /\ ~ui.search
    BY <1>3, <2>1, <2>2 DEF ListGood, AskedOn, List, ListPaged
  <2>4. ui.number = 1 \/ (ui.number - 1) * PerPage < total
    BY <1>3, <2>1 DEF ListPaged, OnPage
  <2> HIDE DEF total
  <2>5. HasRows(ui) <=> total > (ui.number - 1) * PerPage
    BY <2>2, <2>3 DEF HasRows, Found, Loaded
  <2>6. PerPage \in Nat
    BY ListAssumption
  <2>7. (ui.number - 1) * PerPage \in Nat
    BY <2>1, <2>6 DEF ListUi
  <2>8. ui.number = 1 => (ui.number - 1) * PerPage = 0
    BY <2>6
  <2>9. HasRows(ui) <=> total > 0
    BY <2>1, <2>4, <2>5, <2>7, <2>8
  <2> QED BY <2>9 DEF total
<1> QED BY <1>1, <1>2, <1>3 DEF ListNotStranded

-----------------------------------------------------------------------------
(* The case and the incident are in one of their statuses, and so is what   *)
(* the pages show of them.                                                 *)
CaseCallTyped(c) ==
  /\ c.op \in {"getCase", "patchCase", "addNote"}
  /\ c.op \in {"getCase", "patchCase"} /\ c.ans.state = "ok" => c.ans.data.status \in CaseStatus
  /\ c.op = "patchCase" => c.arg \in CaseStatus

CaseTyped ==
  page = "case" =>
    /\ ui = [case |-> ui.case, notes |-> ui.notes, error |-> ui.error, noteText |-> ui.noteText,
             pendingStatus |-> ui.pendingStatus, confirmOpen |-> ui.confirmOpen, role |-> ui.role]
    /\ srv = [status |-> srv.status, notes |-> srv.notes]
    /\ srv.status \in CaseStatus
    /\ {ui.case, ui.pendingStatus} \subseteq CaseStatus \cup {"none"}
    /\ \A s \in Slot : calls[s] # Free => CaseCallTyped(calls[s])

LEMMA CaseTypesStart ==
  ASSUME ConsoleInit, page = "case" => CaseInit
  PROVE  CaseTyped
<1> SUFFICES ASSUME page = "case" PROVE CaseTyped
  BY DEF CaseTyped
<1>1. CaseInit
  OBVIOUS
<1>2. OnlyIn(calls, Call("getCase", "none", {"loading"}))
  BY <1>1, SmoothMounted DEF CaseInit
<1>3. CaseCallTyped(Call("getCase", "none", {"loading"}))
  BY Fields DEF CaseCallTyped
<1>4. PICK role \in UserRole :
        ui = [case |-> "none", notes |-> 0, error |-> FALSE, noteText |-> FALSE,
              pendingStatus |-> "none", confirmOpen |-> FALSE, role |-> role]
  BY <1>1 DEF CaseInit
<1>5. PICK status \in CaseStatus : srv = [status |-> status, notes |-> 0]
  BY <1>1 DEF CaseInit
<1>6. ui = [case |-> ui.case, notes |-> ui.notes, error |-> ui.error, noteText |-> ui.noteText,
            pendingStatus |-> ui.pendingStatus, confirmOpen |-> ui.confirmOpen, role |-> ui.role]
  BY <1>4
<1>7. {ui.case, ui.pendingStatus} \subseteq CaseStatus \cup {"none"}
  BY <1>4
<1> QED BY <1>2, <1>3, <1>5, <1>6, <1>7 DEF CaseTyped, OnlyIn

LEMMA CaseMoves ==
  ASSUME NEW status \in CaseStatus
  PROVE  CASE_TRANSITIONS[status] \subseteq CaseStatus
<1> USE DEF CASE_TRANSITIONS, CaseStatus, CaseBackend!CaseStatus
<1> QED OBVIOUS

LEMMA CaseTypesStep ==
  ASSUME ConsoleInv, CaseTyped, CaseNext, page' = page
  PROVE  CaseTyped'
<1>0. page = "case"
  BY DEF CaseNext
<1> DEFINE Shape(u) ==
      u = [case |-> u.case, notes |-> u.notes, error |-> u.error, noteText |-> u.noteText,
           pendingStatus |-> u.pendingStatus, confirmOpen |-> u.confirmOpen, role |-> u.role]
<1>a. /\ Shape(ui) /\ srv = [status |-> srv.status, notes |-> srv.notes] /\ srv.status \in CaseStatus
      /\ {ui.case, ui.pendingStatus} \subseteq CaseStatus \cup {"none"}
      /\ \A s \in Slot : calls[s] # Free => CaseCallTyped(calls[s])
  BY <1>0 DEF CaseTyped
<1>1. CASE handleStatusSelect
  <2>1. PICK new \in StatusMenu : ui' = [ui EXCEPT !.pendingStatus = new, !.confirmOpen = TRUE]
    BY <1>1 DEF handleStatusSelect
  <2>2. ui.case \in CaseStatus
    BY <1>a, <1>1 DEF handleStatusSelect, CaseRendered
  <2>3. new \in CaseStatus
    BY <2>2, CaseMoves DEF StatusMenu
  <2>4. Shape(ui') /\ ui'.case = ui.case /\ ui'.pendingStatus = new
    BY <1>a, <2>1
  <2>5. calls' = calls /\ srv' = srv
    BY <1>1 DEF handleStatusSelect, NoCall
  <2> QED BY <1>a, <2>3, <2>4, <2>5 DEF CaseTyped
<1>2. CASE CancelStatus
  <2>1. PICK status \in {ui.pendingStatus, "none"} :
          ui' = [ui EXCEPT !.confirmOpen = FALSE, !.pendingStatus = status]
    BY <1>2 DEF CancelStatus
  <2>2. Shape(ui') /\ ui'.case = ui.case /\ ui'.pendingStatus = status
    BY <1>a, <2>1
  <2>3. calls' = calls /\ srv' = srv
    BY <1>2 DEF CancelStatus, NoCall
  <2> QED BY <1>a, <2>2, <2>3 DEF CaseTyped
<1>3. CASE handleStatusConfirm
  <2>1. /\ ui' = [ui EXCEPT !.confirmOpen = FALSE] /\ srv' = srv
        /\ Send("patchCase", ui.pendingStatus, {"updatingStatus"})
    BY <1>3 DEF handleStatusConfirm
  <2>2. Shape(ui') /\ ui'.case = ui.case /\ ui'.pendingStatus = ui.pendingStatus
    BY <1>a, <2>1
  <2>3. ui.pendingStatus \in CaseStatus
    BY <1>a, <1>3 DEF handleStatusConfirm
  <2>4. CaseCallTyped(Call("patchCase", ui.pendingStatus, {"updatingStatus"}))
    BY <2>3, Fields DEF CaseCallTyped
  <2> QED BY <1>a, <2>1, <2>2, <2>4, EachSend DEF CaseTyped
<1>4. CASE TypeNote
  <2>1. ui' = [ui EXCEPT !.noteText = TRUE] /\ calls' = calls /\ srv' = srv
    BY <1>4 DEF TypeNote, NoCall
  <2>2. Shape(ui') /\ ui'.case = ui.case /\ ui'.pendingStatus = ui.pendingStatus
    BY <1>a, <2>1
  <2> QED BY <1>a, <2>1, <2>2 DEF CaseTyped
<1>5. CASE handleAddNote
  <2>1. Send("addNote", "none", {"addingNote"}) /\ ui' = ui /\ srv' = srv
    BY <1>5 DEF handleAddNote
  <2>2. CaseCallTyped(Call("addNote", "none", {"addingNote"}))
    BY Fields DEF CaseCallTyped
  <2> QED BY <1>a, <2>1, <2>2, EachSend DEF CaseTyped
<1>6. CASE CaseColleague
  <2>1. PICK status \in CASE_TRANSITIONS[srv.status] :
          srv' = [srv EXCEPT !.status = status] /\ ui' = ui /\ calls' = calls
    BY <1>6 DEF CaseColleague, Others
  <2>2. status \in CaseStatus
    BY <1>a, CaseMoves
  <2>3. srv' = [status |-> srv'.status, notes |-> srv'.notes] /\ srv'.status = status
    BY <1>a, <2>1
  <2> QED BY <1>a, <2>1, <2>2, <2>3 DEF CaseTyped
<1>7. ASSUME NEW s \in Slot, StatusConfirmed(s) \/ fetchCase(s) PROVE CaseTyped'
  <2>1. InFlight(s) /\ End(s) /\ srv' = srv
    BY <1>7, AwaitsIsInFlight DEF StatusConfirmed, fetchCase
  <2>2. CaseCallTyped(calls[s])
    BY <1>a, <2>1 DEF InFlight
  <2>3. /\ Succeeded(s) => calls[s].ans.data.status \in CaseStatus
    BY <1>7, <2>2 DEF StatusConfirmed, fetchCase, Awaits, Succeeded, CaseCallTyped
  <2>4. CASE StatusConfirmed(s)
    <3>1. ui' = [ui EXCEPT !.pendingStatus = "none",
                           !.case = IF Succeeded(s) THEN calls[s].ans.data.status ELSE @,
                           !.notes = IF Succeeded(s) THEN calls[s].ans.data.notes ELSE @]
      BY <2>4 DEF StatusConfirmed
    <3>2. Shape(ui') /\ ui'.pendingStatus = "none"
      BY <1>a, <3>1
    <3>3. ui'.case = IF Succeeded(s) THEN calls[s].ans.data.status ELSE ui.case
      BY <1>a, <3>1
    <3> QED BY <1>a, <2>1, <2>3, <3>2, <3>3, EachEnd DEF CaseTyped
  <2>5. CASE fetchCase(s)
    <3>1. ui' = IF Succeeded(s)
                THEN [ui EXCEPT !.case = calls[s].ans.data.status,
                                !.notes = calls[s].ans.data.notes]
                ELSE [ui EXCEPT !.error = TRUE]
      BY <2>5 DEF fetchCase
    <3>2. Shape(ui') /\ ui'.pendingStatus = ui.pendingStatus
      BY <1>a, <3>1
    <3>3. ui'.case = IF Succeeded(s) THEN calls[s].ans.data.status ELSE ui.case
      BY <1>a, <3>1
    <3> QED BY <1>a, <2>1, <2>3, <3>2, <3>3, EachEnd DEF CaseTyped
  <2> QED BY <1>7, <2>4, <2>5
<1>8. ASSUME NEW s \in Slot, NoteAdded(s) PROVE CaseTyped'
  <2>1. InFlight(s) /\ srv' = srv
    BY <1>8, AwaitsIsInFlight DEF NoteAdded
  <2>2. CASE Succeeded(s)
    <3>1. /\ ui' = [ui EXCEPT !.noteText = FALSE, !.error = FALSE]
          /\ Chain(s, "getCase", "none", {"loading"})
      BY <1>8, <2>2 DEF NoteAdded
    <3>2. Shape(ui') /\ ui'.case = ui.case /\ ui'.pendingStatus = ui.pendingStatus
      BY <1>a, <3>1
    <3>3. \A f : CaseCallTyped(Call("getCase", "none", f))
      BY Fields DEF CaseCallTyped
    <3>4. \A t \in Slot : calls'[t] = calls[t] \/ \E f : calls'[t] = Call("getCase", "none", f)
      BY <3>1, EachNext
    <3> QED BY <1>a, <2>1, <3>2, <3>3, <3>4 DEF CaseTyped
  <2>3. CASE ~Succeeded(s)
    <3>1. End(s) /\ ui' = ui
      BY <1>8, <2>3 DEF NoteAdded
    <3> QED BY <1>a, <2>1, <3>1, EachEnd DEF CaseTyped
  <2> QED BY <2>2, <2>3
<1>9. ASSUME NEW s \in Slot, Serve(s, CaseReplies(s)) PROVE CaseTyped'
  <2>1. PICK r \in CaseReplies(s) :
          /\ srv' = r.rows
          /\ \A t \in Slot : \/ calls'[t] = calls[t]
                             \/ /\ t = s /\ calls'[t].op = calls[t].op
                                /\ calls'[t].arg = calls[t].arg /\ calls'[t].ans = r.ans
    BY <1>9, EachServe
  <2>2. InFlight(s) /\ ui' = ui /\ CaseCallTyped(calls[s])
    BY <1>9, <1>a DEF Serve, InFlight
  <2>3. /\ srv' = [status |-> srv'.status, notes |-> srv'.notes] /\ srv'.status \in CaseStatus
        /\ calls[s].op \in {"getCase", "patchCase"} /\ r.ans.state = "ok" =>
             r.ans.data.status \in CaseStatus
    <3>1. CASE calls[s].op = "getCase"
      <4>1. srv' = srv /\ r.ans = Ok(CaseResponse(srv))
        BY <2>1, <3>1 DEF CaseReplies, Reply
      <4> QED BY <1>a, <4>1, AnswerFields DEF CaseResponse
    <3>2. CASE calls[s].op = "addNote"
      <4>1. srv' = [srv EXCEPT !.notes = @ + 1]
        BY <2>1, <3>2 DEF CaseReplies, Reply
      <4> QED BY <1>a, <3>2, <4>1
    <3>3. CASE calls[s].op = "patchCase"
      <4>1. r \in CasePatched(calls[s].arg) /\ calls[s].arg \in CaseStatus
        BY <2>1, <2>2, <3>3 DEF CaseReplies, CaseCallTyped
      <4>2. CASE r = Reply(srv, Failed)
        <5>1. srv' = srv /\ r.ans = Failed
          BY <2>1, <4>2 DEF Reply
        <5> QED BY <1>a, <5>1, AnswerFields
      <4>3. CASE r = Reply([srv EXCEPT !.status = calls[s].arg],
                           Ok(CaseResponse([srv EXCEPT !.status = calls[s].arg])))
        <5>1. /\ srv' = [srv EXCEPT !.status = calls[s].arg]
              /\ r.ans = Ok(CaseResponse(srv'))
          BY <2>1, <4>3 DEF Reply
        <5>2. srv' = [status |-> srv'.status, notes |-> srv'.notes] /\ srv'.status = calls[s].arg
          BY <1>a, <5>1
        <5>3. r.ans.data.status = calls[s].arg
          BY <5>1, <5>2, AnswerFields DEF CaseResponse
        <5> QED BY <4>1, <5>2, <5>3
      <4> QED BY <4>1, <4>2, <4>3 DEF CasePatched, Refuse
    <3> QED BY <2>2, <3>1, <3>2, <3>3 DEF CaseCallTyped
  <2>4. \A t \in Slot : calls'[t] # Free => CaseCallTyped(calls'[t])
    BY <1>a, <2>1, <2>2, <2>3 DEF CaseCallTyped
  <2> QED BY <1>a, <2>2, <2>3, <2>4 DEF CaseTyped
<1>10. ASSUME NEW s \in Slot, Lose(s) PROVE CaseTyped'
  <2>1. /\ InFlight(s) /\ ui' = ui /\ srv' = srv
        /\ \A t \in Slot : \/ calls'[t] = calls[t]
                           \/ /\ t = s /\ calls'[t].op = calls[t].op
                              /\ calls'[t].arg = calls[t].arg /\ calls'[t].ans = Failed
    BY <1>10, EachLose
  <2>2. \A t \in Slot : calls'[t] # Free => CaseCallTyped(calls'[t])
    BY <1>a, <2>1, AnswerFields DEF CaseCallTyped, InFlight
  <2> QED BY <1>a, <2>1, <2>2 DEF CaseTyped
<1> QED BY <1>1, <1>2, <1>3, <1>4, <1>5, <1>6, <1>7, <1>8, <1>9, <1>10 DEF CaseNext

IncidentTyped ==
  page = "incident" =>
    /\ ui.incident.status \in IncidentStatus \cup {"none"}
    /\ \A s \in Slot : calls[s].op = "getIncident" /\ calls[s].ans.state = "ok" =>
         calls[s].ans.data.status \in IncidentStatus

LEMMA IncidentTypesStart ==
  ASSUME ConsoleInit
  PROVE  IncidentTyped
<1> SUFFICES ASSUME page = "incident" PROVE IncidentTyped
  BY DEF IncidentTyped
<1>1. IncidentInit
  BY InitOfPage
<1>2. OnlyIn(calls, Call("getIncident", "none", {"loading"}))
  BY <1>1, SmoothMounted DEF IncidentInit
<1>3. ui.incident.status = "none"
  BY <1>1 DEF IncidentInit
<1> QED BY <1>2, <1>3, Fields DEF IncidentTyped, OnlyIn, Free

LEMMA IncidentTypesStep ==
  ASSUME ConsoleInv, IncidentInv, IncidentTyped, IncidentNext, page' = page
  PROVE  IncidentTyped'
<1>0. page = "incident"
  BY DEF IncidentNext
<1> DEFINE Answered(c) ==
      c.op = "getIncident" /\ c.ans.state = "ok" => c.ans.data.status \in IncidentStatus
<1>a. /\ {"incident", "error", "dialog", "containment"} \subseteq DOMAIN ui
      /\ ui.incident.status \in IncidentStatus \cup {"none"}
      /\ \A s \in Slot : Answered(calls[s])
      /\ srv.status \in IncidentStatus
  BY <1>0 DEF IncidentTyped, IncidentInv
<1>b. ASSUME NEW op, NEW arg, NEW f PROVE Answered(Call(op, arg, f))
  BY Fields
<1>c. Answered(Free)
  BY DEF Free
<1>d. ASSUME ui'.incident.status \in IncidentStatus \cup {"none"},
             \A s \in Slot : Answered(calls'[s])
      PROVE  IncidentTyped'
  BY <1>d DEF IncidentTyped
<1> HIDE DEF Answered
<1>1. CASE OpenDialog \/ CloseDialog \/ TypeContainment
  <2>1. calls' = calls /\ ui'.incident = ui.incident
    BY <1>a, <1>1 DEF OpenDialog, CloseDialog, TypeContainment, NoCall
  <2> QED BY <1>a, <1>d, <2>1
<1>2. ASSUME NEW op, NEW arg, NEW flag, Press(op, arg, flag) PROVE IncidentTyped'
  <2>1. Send(op, arg, {flag}) /\ ui' = ui
    BY <1>2 DEF Press
  <2> QED BY <1>a, <1>b, <1>d, <2>1, EachSend
<1>3. CASE handleNotifyAuthority \/ handleSubmitReport \/ handleResolve \/ handleEdit
  BY <1>2, <1>3 DEF handleNotifyAuthority, handleSubmitReport, handleResolve, handleEdit
<1>4. CASE IncidentColleague
  <2>1. calls' = calls /\ ui' = ui
    BY <1>4 DEF IncidentColleague, Others
  <2> QED BY <1>a, <1>d, <2>1
<1>5. ASSUME NEW s \in Slot, fetchIncident(s) PROVE IncidentTyped'
  <2>1. End(s) /\ Awaits(s, "getIncident")
    BY <1>5 DEF fetchIncident
  <2>2. /\ Succeeded(s) => ui'.incident = calls[s].ans.data
        /\ ~Succeeded(s) => ui'.incident = ui.incident
    BY <1>a, <1>5 DEF fetchIncident
  <2>3. Succeeded(s) => calls[s].ans.data.status \in IncidentStatus
    BY <1>a, <2>1 DEF Answered, Succeeded, Awaits
  <2> QED BY <1>a, <1>c, <1>d, <2>1, <2>2, <2>3, EachEnd
<1>6. ASSUME NEW s \in Slot, IncidentChanged(s) PROVE IncidentTyped'
  <2>1. CASE Succeeded(s)
    <3>1. Chain(s, "getIncident", "none", {"loading"}) /\ ui'.incident = ui.incident
      BY <1>a, <1>6, <2>1 DEF IncidentChanged
    <3>2. \A t \in Slot : calls'[t] = calls[t] \/ \E f : calls'[t] = Call("getIncident", "none", f)
      BY <3>1, EachNext
    <3> QED BY <1>a, <1>b, <1>d, <3>1, <3>2
  <2>2. CASE ~Succeeded(s)
    <3>1. End(s) /\ ui' = ui
      BY <1>6, <2>2 DEF IncidentChanged
    <3> QED BY <1>a, <1>c, <1>d, <3>1, EachEnd
  <2> QED BY <2>1, <2>2
<1>7. ASSUME NEW s \in Slot, Serve(s, IncidentReplies(s)) PROVE IncidentTyped'
  <2>1. PICK r \in IncidentReplies(s) :
          /\ srv' = r.rows
          /\ \A t \in Slot : \/ calls'[t] = calls[t]
                             \/ /\ t = s /\ calls'[t].op = calls[t].op
                                /\ calls'[t].arg = calls[t].arg /\ calls'[t].ans = r.ans
    BY <1>7, EachServe
  <2>2. ui' = ui
    BY <1>7 DEF Serve
  <2>3. ASSUME calls[s].op = "getIncident" PROVE r.ans.data.status \in IncidentStatus
    <3>1. r.ans = Ok(IncidentResponse(srv))
      BY <2>3 DEF IncidentReplies, Reply
    <3> QED BY <1>a, <3>1, AnswerFields DEF IncidentResponse
  <2>4. \A t \in Slot : Answered(calls'[t])
    BY <1>a, <2>1, <2>3 DEF Answered
  <2> QED BY <1>a, <1>d, <2>2, <2>4
<1>8. ASSUME NEW s \in Slot, Lose(s) PROVE IncidentTyped'
  <2>1. /\ ui' = ui
        /\ \A t \in Slot : \/ calls'[t] = calls[t]
                           \/ calls'[t].op = calls[t].op /\ calls'[t].ans = Failed
    BY <1>8, EachLose
  <2>2. \A t \in Slot : Answered(calls'[t])
    BY <1>a, <2>1, AnswerFields DEF Answered
  <2> QED BY <1>a, <1>d, <2>1, <2>2
<1> QED BY <1>1, <1>3, <1>4, <1>5, <1>6, <1>7, <1>8 DEF IncidentNext

-----------------------------------------------------------------------------
(* All pages together.  What the pages hold is typed however calls overlap; *)
(* what they know, they know while all goes smoothly.                      *)
TypesInv ==
  /\ page \in Page
  /\ CaseTyped /\ CustomerTyped /\ IncidentTyped /\ IsarTyped /\ HeaderTyped

KnownInv ==
  /\ CaseKnown /\ CustomerKnown /\ IncidentKnown /\ IsarKnown /\ StrsKnown /\ FormA6Known
  /\ FormKnown /\ AdvancedKnown /\ EditorKnown /\ ApplicationsKnown
  /\ ResultsKnown /\ BatchKnown /\ HeaderKnown /\ ListKnown /\ AskedInv

FreshInv == UndoneInv /\ FormInv /\ TypesInv /\ KnownInv

(* ... from the page that was mounted ... *)
LEMMA PageOfInit ==
  ASSUME ConsoleInit
  PROVE  page \in Page
<1> USE DEF Page
<1>1. CaseInit \/ CustomerInit \/ ListInit \/ IncidentInit => page \in Page
  BY DEF CaseInit, CustomerInit, ListInit, IncidentInit
<1>2. ReportPageInit => page \in Page
  BY DEF ReportPageInit, IsarInit, NewIsarInit, StrsInit, FormA5Init, FormA6Init
<1>3. SettingsPageInit => page \in Page
  BY DEF SettingsPageInit, FormInit, NotificationsInit, AdvancedInit
<1>4. EditorPageInit => page \in Page
  BY DEF EditorPageInit, EditorInit, ApiKeysInit, TenantInit
<1>5. ApplicationPageInit => page \in Page
  BY DEF ApplicationPageInit, ApplyInit, ApplicationsInit, OnboardingInit
<1>6. ScreeningPageInit \/ SessionPageInit => page \in Page
  BY DEF ScreeningPageInit, ResultsInit, BatchInit, SessionPageInit, SessionInit, HeaderInit
<1> QED BY <1>1, <1>2, <1>3, <1>4, <1>5, <1>6 DEF ConsoleInit

LEMMA FreshStarts ==
  ASSUME ConsoleInit
  PROVE  FreshInv
<1>1. UndoneInv /\ FormInv
  BY ConsoleStarts, ApplicationsStarts, IncidentStarts, FormStarts DEF UndoneInv
<1>2. TypesInv
  BY PageOfInit, InitOfPage, CaseTypesStart, CustomerStarts, IncidentTypesStart, IsarStarts,
     HeaderTypesStart
     DEF TypesInv
<1>3. CaseKnown /\ CustomerKnown /\ IncidentKnown /\ IsarKnown /\ StrsKnown /\ FormA6Known
  BY InitOfPage, CaseStarts, CustomerStarts, IncidentKnownStarts, IsarStarts, StrsStarts, FormA6Starts
<1>4. /\ FormKnown /\ AdvancedKnown /\ EditorKnown /\ ApplicationsKnown
      /\ ResultsKnown /\ BatchKnown /\ HeaderKnown
  BY InitOfPage, FormKnownStarts, AdvancedStarts, EditorStarts, ApplicationsKnownStarts,
     ResultsStarts, BatchStarts, HeaderStarts
<1>5. ListKnown /\ AskedInv
  BY InitOfPage, ListStarts, AskedStarts
<1> QED BY <1>1, <1>2, <1>3, <1>4, <1>5 DEF FreshInv, KnownInv

(* A step of the page that is open keeps what is known of it; the others   *)
(* are not open.                                                           *)
LEMMA TypesStep ==
  ASSUME UndoneInv, TypesInv, PageNext, page' = page
  PROVE  TypesInv'
<1> USE DEF UndoneInv, TypesInv
<1>1. CaseTyped'
  BY StepsOfPage, CaseTypesStep DEF CaseTyped
<1>2. CustomerTyped'
  BY StepsOfPage, CustomerTypesStep DEF CustomerTyped
<1>3. IncidentTyped'
  BY StepsOfPage, IncidentTypesStep DEF IncidentTyped
<1>4. IsarTyped'
  BY StepsOfPage, IsarTypesStep DEF IsarTyped
<1>5. HeaderTyped'
  BY StepsOfPage, HeaderTypesStep DEF HeaderTyped
<1> QED BY <1>1, <1>2, <1>3, <1>4, <1>5

LEMMA KnownStep ==
  ASSUME FreshInv, PageNext, page' = page
  PROVE  KnownInv'
<1> USE DEF FreshInv, UndoneInv, TypesInv, KnownInv
<1>1. CaseKnown' /\ CustomerKnown' /\ IncidentKnown'
  <2>1. CaseKnown'
    BY StepsOfPage, CaseStep DEF CaseKnown
  <2>2. CustomerKnown'
    BY StepsOfPage, CustomerStep DEF CustomerKnown
  <2>3. IncidentKnown'
    BY StepsOfPage, IncidentKnownStep DEF IncidentKnown
  <2> QED BY <2>1, <2>2, <2>3
<1>2. IsarKnown' /\ StrsKnown' /\ FormA6Known'
  <2>1. IsarKnown'
    BY StepsOfPage, IsarStep DEF IsarKnown
  <2>2. StrsKnown'
    BY StepsOfPage, StrsStep DEF StrsKnown
  <2>3. FormA6Known'
    BY StepsOfPage, FormA6Step DEF FormA6Known
  <2> QED BY <2>1, <2>2, <2>3
<1>3. FormKnown' /\ AdvancedKnown' /\ EditorKnown' /\ ApplicationsKnown'
  <2>1. FormKnown'
    BY StepsOfPage, FormKnownStep DEF FormKnown
  <2>2. AdvancedKnown'
    BY StepsOfPage, AdvancedStep DEF AdvancedKnown
  <2>3. EditorKnown'
    BY StepsOfPage, EditorStep DEF EditorKnown
  <2>4. ApplicationsKnown'
    BY StepsOfPage, ApplicationsKnownStep DEF ApplicationsKnown
  <2> QED BY <2>1, <2>2, <2>3, <2>4
<1>4. ResultsKnown' /\ BatchKnown' /\ HeaderKnown'
  <2>1. ResultsKnown'
    BY StepsOfPage, ResultsStep DEF ResultsKnown
  <2>2. BatchKnown'
    BY StepsOfPage, BatchStep DEF BatchKnown
  <2>3. HeaderKnown'
    BY StepsOfPage, HeaderStep DEF HeaderKnown
  <2> QED BY <2>1, <2>2, <2>3
<1>5. ListKnown' /\ AskedInv'
  <2>1. ListKnown'
    BY StepsOfPage, ListStep DEF ListKnown
  <2>2. {"alerts", "wallets"} \subseteq DOMAIN ListPage
    BY DEF ListPage
  <2>3. AskedInv'
    BY <2>2, StepsOfPage, AskedStep DEF AskedInv
  <2> QED BY <2>1, <2>3
<1> QED BY <1>1, <1>2, <1>3, <1>4, <1>5

LEMMA FreshStep ==
  ASSUME FreshInv, [ConsoleNext]_consoleVars
  PROVE  FreshInv'
<1>0. UndoneInv' /\ FormInv'
  BY UndoneStep, FormInvStep DEF FreshInv, UndoneInv
<1>1. CASE UNCHANGED consoleVars
  <2>1. page' = page /\ ui' = ui /\ busy' = busy /\ calls' = calls /\ srv' = srv /\ smooth' = smooth
    BY <1>1 DEF consoleVars
  <2>2. TypesInv'
    BY <2>1 DEF FreshInv, TypesInv, CaseTyped, CustomerTyped, IncidentTyped, IsarTyped, HeaderTyped
  <2>3. KnownInv'
    BY <2>1 DEF FreshInv, KnownInv, CaseKnown, CustomerKnown, IncidentKnown, IsarKnown, StrsKnown,
                FormA6Known, FormKnown, AdvancedKnown, EditorKnown, ApplicationsKnown,
                ResultsKnown, BatchKnown, HeaderKnown, ListKnown, AskedInv
  <2> QED BY <1>0, <2>2, <2>3 DEF FreshInv
<1>2. CASE PageNext /\ page' = page
  BY <1>0, <1>2, TypesStep, KnownStep DEF FreshInv
<1>3. CASE page' = "elsewhere"
  <2>1. "elsewhere" \notin DOMAIN FormPage \cup DOMAIN EditorPage \cup DOMAIN ListPage
    BY DEF FormPage, EditorPage, ListPage
  <2>2. TypesInv'
    BY <1>3 DEF TypesInv, Page, CaseTyped, CustomerTyped, IncidentTyped, IsarTyped, HeaderTyped
  <2>3. KnownInv'
    BY <1>3, <2>1
       DEF KnownInv, CaseKnown, CustomerKnown, IncidentKnown, IsarKnown, StrsKnown,
           FormA6Known, FormKnown, AdvancedKnown, EditorKnown, ApplicationsKnown,
           ResultsKnown, BatchKnown, HeaderKnown, ListKnown, AskedInv
  <2> QED BY <1>0, <2>2, <2>3 DEF FreshInv
<1> QED BY <1>1, <1>2, <1>3, StepKinds DEF FreshInv, UndoneInv

(* What the pages know is what is required of them. *)
LEMMA KnownIsFresh ==
  ASSUME FreshInv
  PROVE  PageIsFresh /\ TablesAnswerTheirFilter
<1> USE DEF FreshInv, TypesInv, KnownInv
<1>0. Quiet => NoneIn(calls)
  BY DEF Quiet, NoneIn, InFlight
<1>1. CaseFresh /\ CustomerFresh
  BY <1>0 DEF CaseFresh, CustomerFresh, CaseKnown, CaseWith, CustomerKnown, CustomerWith,
              DetailsShown, ResultsCard
<1>2. ReportFresh
  BY <1>0 DEF ReportFresh, IsarKnown, IsarWith, StrsKnown, StrsWith, FormA6Known, FormA6With, StatsOf
<1>3. SettingsFresh
  <2>1. smooth /\ Quiet /\ page = "advanced" => ui.groups = srv
    BY <1>0 DEF AdvancedKnown, AdvancedWith
  <2>2. smooth /\ Quiet /\ page \in DOMAIN FormPage => FormShows(ui, srv)
    BY <1>0 DEF FormKnown, FormWith
  <2> QED BY <2>1, <2>2 DEF SettingsFresh, FormShows, Touched, Plain
<1>4. EditorFresh /\ ApplicationsFresh
  BY <1>0 DEF EditorFresh, EditorKnown, EditorWith, ApplicationsFresh, ApplicationsKnown,
              ApplicationsWith
<1>5. ScreeningFresh
  <2>1. smooth /\ Quiet /\ page = "results" => ui.rows = list_results(ui.filter)
    BY <1>0 DEF ResultsKnown, ResultsWith, ResultsOf, list_results
  <2>2. smooth /\ Quiet /\ page = "batch" => hasActiveJobs \/ ui.jobs = srv
    <3>1. SUFFICES ASSUME smooth, Quiet, page = "batch", ~hasActiveJobs PROVE ui.jobs = srv
      OBVIOUS
    <3>2. srv \in Seq(JobStatus) /\ Behind(ui.jobs, srv)
      BY <1>0, <3>1 DEF BatchKnown, BatchWith
    <3>3. \A i \in DOMAIN srv : ui.jobs[i] = srv[i]
      BY <3>1, <3>2 DEF Behind, hasActiveJobs
    <3>4. ui.jobs = [i \in DOMAIN srv |-> ui.jobs[i]] /\ srv = [i \in DOMAIN srv |-> srv[i]]
      BY <3>2 DEF Behind
    <3> QED BY <3>3, <3>4
  <2> QED BY <2>1, <2>2 DEF ScreeningFresh
<1>6. HeaderFresh
  BY <1>0 DEF HeaderFresh, HeaderTyped, HeaderKnown, HeaderWith, Searched
<1>7. page = "incident" => IncidentFresh
  <2>1. page = "incident" /\ smooth /\ Quiet => ui.incident = IncidentResponse(srv)
    BY <1>0 DEF IncidentKnown, IncidentWith
  <2>2. page = "incident" /\ smooth /\ Quiet =>
          \A st \in TimelineCard : STATUS_STEPS[st] <= STATUS_STEPS[srv.status]
    BY <2>1 DEF TimelineCard, IncidentResponse
  <2> QED BY <2>1, <2>2 DEF IncidentFresh
<1>8. page \in DOMAIN ListPage => ListFresh /\ ListIsAsked /\ ListNotStranded
  BY ListIsKnown
<1> QED BY <1>1, <1>2, <1>3, <1>4, <1>5, <1>6, <1>7, <1>8 DEF PageIsFresh, TablesAnswerTheirFilter

(* ... and so are the types. *)
LEMMA TypesAreOK ==
  ASSUME FreshInv
  PROVE  ConsoleTypeOK
<1> USE DEF FreshInv, TypesInv, UndoneInv
<1>1. DOMAIN calls = Slot /\ smooth \in BOOLEAN
  BY DEF ConsoleInv, CallsInv, CallsOK, Alone
<1>2. ASSUME NEW s \in Slot
      PROVE  DOMAIN calls[s] = IF InFlight(s) THEN {"op", "arg", "flags", "ans"} ELSE {"op", "flags"}
  <2>1. calls[s] = Free \/ DOMAIN calls[s] = CallFields
    BY DEF ConsoleInv, CallsInv, CallsOK
  <2>2. DOMAIN Free = {"op", "flags"}
    BY DEF Free
  <2> QED BY <2>1, <2>2 DEF InFlight, CallFields
<1>3. page = "customer" => srv \in KycBackend!View /\ ui.status \in KycBackend!KycStatus \cup {"none"}
  BY DEF CustomerTyped
<1>4. page = "case" => {srv.status, ui.case} \subseteq CaseStatus \cup {"none"}
  BY DEF CaseTyped
<1>5. page = "incident" => {srv.status, ui.incident.status} \subseteq IncidentStatus \cup {"none"}
  BY DEF IncidentTyped, IncidentInv
<1>6. page = "isar" => {srv.status, ui.isar.status} \subseteq Reporting!IsarStatus \cup {"none"}
  BY DEF IsarTyped
<1> QED BY <1>1, <1>2, <1>3, <1>4, <1>5, <1>6 DEF ConsoleTypeOK

(* The pages that are open hold what their types and their calls say, and    *)
(* the others are not open.                                                *)
THEOREM FreshInvariant == ConsoleSpec => []FreshInv
<1>1. ConsoleInit => FreshInv
  BY FreshStarts
<1>2. FreshInv /\ [ConsoleNext]_consoleVars => FreshInv'
  BY FreshStep
<1> QED BY <1>1, <1>2, PTL DEF ConsoleSpec

(* Calls have the fields that handlers read, and the customer, the case,    *)
(* the incident and the ISAR are only in statuses that the backend knows,   *)
(* however calls overlap, fail and are lost.                               *)
THEOREM ConsoleTypes == ConsoleSpec => []ConsoleTypeOK
<1>1. FreshInv => ConsoleTypeOK
  BY TypesAreOK
<1> QED BY <1>1, FreshInvariant, PTL

(* On every page but the coupons, once nothing is under way, and as long as *)
(* no call was lost or overlapped another and nobody else wrote, what is    *)
(* shown is what the backend has: no handler forgets the load or the update *)
(* that its operation calls for.                                           *)
THEOREM PagesAreFresh == ConsoleSpec => []PageIsFresh
<1>1. FreshInv => PageIsFresh
  BY KnownIsFresh
<1> QED BY <1>1, FreshInvariant, PTL

(* Alerts and wallets never show rows of another filter, however loads      *)
(* overlap and fail, and after smooth work incidents and the audit log are  *)
(* never left on a page past the last row.                                 *)
THEOREM TablesAnswer == ConsoleSpec => []TablesAnswerTheirFilter
<1>1. FreshInv => TablesAnswerTheirFilter
  BY KnownIsFresh
<1> QED BY <1>1, FreshInvariant, PTL
=============================================================================
