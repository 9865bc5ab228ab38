------------------------- MODULE IdentityVerification -------------------------
(***************************************************************************)
(* The identity check of one customer: verify_nadra runs one or two        *)
(* providers according to the admin's routing settings; NADRA answers at   *)
(* once, Shufti answers later through a callback.  Requests and callbacks  *)
(* overlap: each is one transaction, which reads first and writes at its   *)
(* commit.  So is each request of the other endpoints that moves the       *)
(* status: uploads, which may verify by OCR, and PATCH, which verifies     *)
(* without any result.                                                     *)
(*                                                                         *)
(* The Shufti side is the environment: it knows a reference from the       *)
(* moment of the HTTP call, whether or not our transaction commits, and it *)
(* sends an event again until it gets a 200.                               *)
(***************************************************************************)
EXTENDS Naturals, Sequences, FiniteSets

CONSTANTS
  Verifier,     \* the calls of verify_nadra, each made once
  Callback,     \* the callback handlers that can be open at the same time
  Request,      \* the uploads and PATCHes that can be open at the same time
  Routings,     \* the routing settings a call can read (cached for 60 s)
  NonFinal      \* the events that Shufti sends besides its final answer

Provider == {"nadra", "shufti"}
Trigger  == {"error", "timeout", "low_confidence", "always_both"}
Routing  == [primary : Provider, fallback : Provider \cup {"none"}, trigger : Trigger]

Answer == {"pass", "fail"}          \* verification.accepted and .declined

ASSUME RoutingsAssumption == Routings # {} /\ Routings \subseteq Routing
ASSUME VerifierAssumption == Verifier # {}
ASSUME CallbackAssumption == IsFiniteSet(Callback)
ASSUME NonFinalAssumption == NonFinal \cap Answer = {}

(* A provider runs in one of three places of verify_nadra: as the primary, *)
(* as the fallback, or in the exception handler.  A call and a place name  *)
(* the run, and the reference if the provider is Shufti.                   *)
Role == {"primary", "fallback", "handler"}
Attempt == Verifier \X Role
Message == Attempt \X (Answer \cup NonFinal)

(* The statuses up to the identity check, and all others as one: no         *)
(* endpoint leads from those back to these.                                *)
Early  == {"initiated", "documents_uploaded", "identity_verified"}
Status == Early \cup {"later"}
Lump(kycStatus) == IF kycStatus \in Early THEN kycStatus ELSE "later"

VARIABLES
  status,       \* kyc_status, as committed
  byPatch,      \* history: identity_verified was given by PATCH
  ocrPass,      \* a VerificationResult of type document_ocr and status pass exists
  req,          \* the open uploads and PATCHes
  results,      \* the VerificationResult rows of each attempt, in order
  pending,      \* the rows of shufti_pending_verifications
  ver,          \* the calls of verify_nadra
  cb,           \* the open callback handlers
  created,      \* Shufti: the references it has been asked for
  offered,      \* the references whose URL was returned to the client
  sent,         \* Shufti: the events sent so far
  acked         \* Shufti: the events that got their 200

customer == <<status, byPatch, ocrPass, req>>
vars == <<customer, results, pending, ver, cb, created, offered, sent, acked>>

Call == [pc : {"new", "running", "done"}, role : Role \cup {"commit", "fail"},
         routing : Routings, seen : Status,
         rows : SUBSET (Role \X Answer), asks : SUBSET Role]

Handler == [pc : {"idle", "found", "deleted"}, msg : Message, seen : Status]

EndpointCall == [pc : {"idle", "open"}, seen : Status]

TypeOK ==
  /\ status \in Status /\ byPatch \in BOOLEAN /\ ocrPass \in BOOLEAN
  /\ req \in [Request -> EndpointCall]
  /\ results \in [Attempt -> Seq(Answer)]
  /\ pending \subseteq Attempt /\ created \subseteq Attempt /\ offered \subseteq Attempt
  /\ ver \in [Verifier -> Call]
  /\ cb \in [Callback -> Handler]
  /\ sent \subseteq Message /\ acked \subseteq Message

NewCall == [pc |-> "new", role |-> "primary", routing |-> CHOOSE r \in Routings : TRUE,
            seen |-> "initiated", rows |-> {}, asks |-> {}]
NoHandler == [pc |-> "idle", msg |-> CHOOSE m \in Message : TRUE, seen |-> "initiated"]
NoCall == [pc |-> "idle", seen |-> "initiated"]

Init ==
  /\ status = "initiated" /\ byPatch = FALSE /\ ocrPass = FALSE
  /\ req = [q \in Request |-> NoCall]
  /\ results = [a \in Attempt |-> <<>>]
  /\ pending = {} /\ created = {} /\ offered = {} /\ sent = {} /\ acked = {}
  /\ ver = [v \in Verifier |-> NewCall]
  /\ cb = [c \in Callback |-> NoHandler]

-----------------------------------------------------------------------------
(***************************************************************************)
(* verify_nadra                                                            *)
(***************************************************************************)
Both(r) == r.trigger = "always_both" /\ r.fallback # "none"

ProviderOf(r, role) == IF role = "primary" THEN r.primary ELSE r.fallback

(* What follows a provider run: another run, the commit, or an exception.  *)
(* A NADRA failure is a result of confidence 0, under every threshold; a   *)
(* fallback that raises inside the try is run again by its handler.        *)
After(r, role, outcome) ==
  LET failed == outcome \in {"raise", "timeout"}
  IN CASE Both(r) /\ failed             -> "fail"
       [] Both(r) /\ role = "primary"   -> "fallback"
       [] Both(r)                       -> "commit"
       [] failed /\ role # "handler" /\ r.fallback # "none" -> "handler"
       [] failed                        -> "fail"
       [] /\ role = "primary" /\ outcome = "fail"
          /\ r.trigger = "low_confidence" /\ r.fallback # "none" -> "fallback"
       [] OTHER                         -> "commit"

Outcomes(r, role) ==
  {"raise"} \cup (IF r.trigger = "timeout" /\ role = "primary" THEN {"timeout"} ELSE {})

(* The customer and the routing are read, and the primary provider is next.*)
BeginVerify(v) ==
  /\ ver[v].pc = "new"
  /\ \E r \in Routings :
       ver' = [ver EXCEPT ![v].pc = "running", ![v].routing = r, ![v].seen = status]
  /\ UNCHANGED <<customer, results, pending, cb, created, offered, sent, acked>>

Running(v, provider) ==
  /\ ver[v].pc = "running"
  /\ ver[v].role \in Role
  /\ ProviderOf(ver[v].routing, ver[v].role) = provider

(* The adapter answers, or it raises or is cancelled and leaves no row.    *)
RunNadra(v) ==
  LET call == ver[v] IN
  /\ Running(v, "nadra")
  /\ \E outcome \in Answer \cup Outcomes(call.routing, call.role) :
       ver' = [ver EXCEPT ![v].role = After(call.routing, call.role, outcome),
                          ![v].rows = IF outcome \in Answer
                                      THEN @ \cup {<<call.role, outcome>>} ELSE @]
  /\ UNCHANGED <<customer, results, pending, cb, created, offered, sent, acked>>

(* Shufti is asked and the pending row flushed.  A run that raises or is   *)
(* cancelled leaves no row, and Shufti may know its reference all the same.*)
RunShufti(v) ==
  LET call == ver[v] IN
  /\ Running(v, "shufti")
  /\ \E outcome \in {"asked"} \cup Outcomes(call.routing, call.role), reached \in BOOLEAN :
       /\ outcome = "asked" => reached
       /\ ver' = [ver EXCEPT ![v].role = After(call.routing, call.role, outcome),
                             ![v].asks = IF outcome = "asked" THEN @ \cup {call.role} ELSE @]
       /\ created' = IF reached THEN created \cup {<<v, call.role>>} ELSE created
  /\ UNCHANGED <<customer, results, pending, cb, offered, sent, acked>>

(* The client gets what the call returns: with always_both, the primary's. *)
Returned(call) ==
  IF Both(call.routing) THEN call.asks \cap {"primary"} ELSE call.asks

(* A mutant: any answer advances the customer.                             *)
AdvanceAnyAnswer(seen, answer) == seen = "documents_uploaded"

Advance(seen, answer) == answer = "pass" /\ seen = "documents_uploaded"

AdvanceIf(advances) ==
  /\ status' = IF advances THEN "identity_verified" ELSE status
  /\ byPatch' = (byPatch /\ ~advances)

(* The NADRA row that the call of v adds to those of attempt a.            *)
NewRow(v, a) ==
  IF a[1] = v /\ <<a[2], "pass">> \in ver[v].rows THEN <<"pass">>
  ELSE IF a[1] = v /\ <<a[2], "fail">> \in ver[v].rows THEN <<"fail">>
  ELSE <<>>

CommitVerify(v) ==
  LET call == ver[v] IN
  /\ call.pc = "running" /\ call.role = "commit"
  /\ results' = [a \in Attempt |-> results[a] \o NewRow(v, a)]
  /\ pending' = pending \cup ({v} \X call.asks)
  /\ offered' = offered \cup ({v} \X Returned(call))
  /\ AdvanceIf(\E row \in call.rows : Advance(call.seen, row[2]))
  /\ ver' = [ver EXCEPT ![v].pc = "done"]
  /\ UNCHANGED <<ocrPass, req, cb, created, sent, acked>>

(* The call raises, or its process dies.                                   *)
RollbackVerify(v) ==
  /\ ver[v].pc = "running"
  /\ ver' = [ver EXCEPT ![v].pc = "done"]
  /\ UNCHANGED <<customer, results, pending, cb, created, offered, sent, acked>>

-----------------------------------------------------------------------------
(***************************************************************************)
(* The other endpoints that move the status: what they do to a customer is *)
(* said in CustomerHandlers.                                               *)
(***************************************************************************)
Endpoints == INSTANCE CustomerHandlers WITH MaxIds <- 0, Countries <- {}

(* The customer is read. *)
OpenRequest(q) ==
  /\ req[q].pc = "idle"
  /\ req' = [req EXCEPT ![q].pc = "open", ![q].seen = status]
  /\ UNCHANGED <<status, byPatch, ocrPass>>

(* The end of a request, which commits or is rolled back. *)
Close(q) ==
  /\ req[q].pc = "open"
  /\ req' = [req EXCEPT ![q] = NoCall]

(* An identity document or a selfie is stored.  An OCR that passes leaves a *)
(* result, and may verify the customer in the same transaction; whether the *)
(* counterpart of the face match is on file is left open.  The column is    *)
(* only written if it changed.                                             *)
Upload(q) ==
  /\ Close(q)
  /\ \E kind \in {"id", "selfie"}, ok \in BOOLEAN, faceOk \in BOOLEAN :
       LET read  == [status |-> req[q].seen, docs |-> {"id", "selfie"}]
           after == Lump(Endpoints!FaceMatch(Endpoints!UploadStored(read, kind, ok),
                                             kind, faceOk).status)
       IN /\ status' = IF after = req[q].seen THEN status ELSE after
          /\ byPatch' = (byPatch /\ after = req[q].seen)
          /\ ocrPass' = (ocrPass \/ (kind = "id" /\ ok))

(* The transition table is all that PATCH asks for. *)
PatchStatus(q) ==
  /\ Close(q)
  /\ \E move \in Endpoints!KycTransitions :
       /\ Lump(move[1]) = req[q].seen
       /\ status' = Lump(move[2])
       /\ byPatch' = (move[2] = "identity_verified")
  /\ UNCHANGED ocrPass

RollbackRequest(q) == Close(q) /\ UNCHANGED <<status, byPatch, ocrPass>>

(* Freezing a customer, and scoring, EDD and unfreezing, which write one of *)
(* the later statuses as well, from whatever they have read.               *)
MoveOn ==
  /\ status # "later"
  /\ status' = "later" /\ byPatch' = FALSE
  /\ UNCHANGED <<ocrPass, req>>

CustomerMoves ==
  /\ \/ MoveOn
     \/ \E q \in Request : \/ OpenRequest(q) \/ Upload(q)
                           \/ PatchStatus(q) \/ RollbackRequest(q)
  /\ UNCHANGED <<results, pending, ver, cb, created, offered, sent, acked>>

-----------------------------------------------------------------------------
(***************************************************************************)
(* Shufti                                                                  *)
(***************************************************************************)
Decided(a) == \E answer \in Answer : <<a, answer>> \in sent

(* Shufti reports progress on a reference, or - once its user came by the  *)
(* offered URL - its final answer.                                         *)
ShuftiSends ==
  /\ \E a \in created :
       /\ ~Decided(a)
       /\ \E event \in NonFinal \cup (IF a \in offered THEN Answer ELSE {}) :
            /\ <<a, event>> \notin sent
            /\ sent' = sent \cup {<<a, event>>}
  /\ UNCHANGED <<customer, results, pending, ver, cb, created, offered, acked>>

-----------------------------------------------------------------------------
(***************************************************************************)
(* _process_shufti_callback                                                *)
(***************************************************************************)
(* The pending row is looked up; an unknown reference is answered 200.     *)
BeginCallback(c, m) ==
  /\ cb[c].pc = "idle" /\ m \in sent
  /\ IF m[1] \in pending
     THEN cb' = [cb EXCEPT ![c].pc = "found", ![c].msg = m] /\ UNCHANGED acked
     ELSE acked' = acked \cup {m} /\ UNCHANGED cb
  /\ UNCHANGED <<customer, results, pending, ver, created, offered, sent>>

(* The DELETE waits for another callback that holds the row.  If that one  *)
(* commits, the DELETE matches no row, which SQLAlchemy only warns about.  *)
RowFree(c) ==
  \A d \in Callback \ {c} : cb[d].pc = "deleted" => cb[d].msg[1] # cb[c].msg[1]

(* A mutant: the deletion is committed on its own.                         *)
DeletePendingCommits(c) ==
  /\ cb[c].pc = "found" /\ RowFree(c)
  /\ cb' = [cb EXCEPT ![c].pc = "deleted", ![c].seen = status]
  /\ pending' = pending \ {cb[c].msg[1]}
  /\ UNCHANGED <<customer, results, ver, created, offered, sent, acked>>

(* The pending row is deleted and flushed, and the customer read.          *)
DeletePending(c) ==
  /\ cb[c].pc = "found" /\ RowFree(c)
  /\ cb' = [cb EXCEPT ![c].pc = "deleted", ![c].seen = status]
  /\ UNCHANGED <<customer, results, pending, ver, created, offered, sent, acked>>

(* Two mutants: every event is stored as it comes; every event but a       *)
(* decline is a pass.                                                      *)
RowsForRaw(event) == <<event>>
RowsForAnyButDecline(event) == IF event = "fail" THEN <<"fail">> ELSE <<"pass">>

(* Final events only.                                                      *)
RowsFor(event) == IF event \in Answer THEN <<event>> ELSE <<>>

(* A mutant: the row is left to be deleted later.                          *)
DeletedKeeps(a) == pending

Deleted(a) == pending \ {a}

(* Commit; the 200 may get lost on its way to Shufti.                      *)
CommitCallback(c) ==
  LET a      == cb[c].msg[1]
      answer == cb[c].msg[2]
  IN
  /\ cb[c].pc = "deleted"
  /\ pending' = Deleted(a)
  /\ results' = [results EXCEPT ![a] = @ \o RowsFor(answer)]
  /\ AdvanceIf(Advance(cb[c].seen, answer))
  /\ acked' \in {acked, acked \cup {cb[c].msg}}
  /\ cb' = [cb EXCEPT ![c] = NoHandler]
  /\ UNCHANGED <<ocrPass, req, ver, created, offered, sent>>

(* The callback raises or its process dies: Shufti gets no 200.            *)
CrashCallback(c) ==
  /\ cb[c].pc # "idle"
  /\ cb' = [cb EXCEPT ![c] = NoHandler]
  /\ UNCHANGED <<customer, results, pending, ver, created, offered, sent, acked>>

Next ==
  \/ \E v \in Verifier : \/ BeginVerify(v) \/ RunNadra(v) \/ RunShufti(v)
                         \/ CommitVerify(v) \/ RollbackVerify(v)
  \/ CustomerMoves \/ ShuftiSends
  \/ \E c \in Callback :
       \/ \E m \in Message : BeginCallback(c, m)
       \/ DeletePending(c) \/ CommitCallback(c) \/ CrashCallback(c)

Spec == Init /\ [][Next]_vars

(* Shufti sends an event until it got a 200 (assumed of the final answers),*)
(* and a callback that starts again and again is not cut down every time.  *)
Redelivery(m) == m \notin acked /\ \E c \in Callback : BeginCallback(c, m)

FairSpec ==
  /\ Spec
  /\ \A m \in Attempt \X Answer : SF_vars(Redelivery(m))
  /\ \A c \in Callback : SF_vars(DeletePending(c)) /\ SF_vars(CommitCallback(c))

-----------------------------------------------------------------------------
(***************************************************************************)
(* Properties.  For every overlap of calls and callbacks:                  *)
(***************************************************************************)
Holds(rows, answer) == \E i \in 1..Len(rows) : rows[i] = answer

(* A customer in identity_verified has a passing result on file, of an      *)
(* identity provider or of the OCR of a document, unless it was PATCH that  *)
(* gave the status: no stale read of a call, a callback or an upload       *)
(* verifies a customer without one.                                        *)
VerifiedHasPass ==
  status = "identity_verified" =>
    byPatch \/ ocrPass \/ \E a \in Attempt : Holds(results[a], "pass")

(* A Shufti result is the answer that Shufti gave for that reference, and  *)
(* the client was offered its URL.                                         *)
ResultIsShuftisAnswer ==
  \A a \in created : \A i \in 1..Len(results[a]) :
    <<a, results[a][i]>> \in sent /\ a \in offered

(* An event other than the final answer was sent for a reference.          *)
NonFinalSent(a) == \E event \in NonFinal : <<a, event>> \in sent

(* As long as Shufti sends final events only: an offered URL stays         *)
(* answerable, that is its reference waits for its callback or has its     *)
(* result, so that no answer meets "unknown reference".                    *)
FinalOnlyIsAnswerable ==
  \A a \in offered : a \in pending \/ results[a] # <<>> \/ NonFinalSent(a)

(* "Delete pending so we don't process twice": redeliveries and crashes    *)
(* add nothing.  Only callbacks that overlap can record an answer again,   *)
(* once each; with one handler at a time it is recorded once.              *)
RecordedOncePerHandler ==
  \A a \in created : Len(results[a]) <= Cardinality(Callback)

(* An answer that Shufti will not send again is on file: a crash or a lost  *)
(* acknowledgement loses none.                                             *)
AckedIsRecorded ==
  \A a \in offered : \A answer \in Answer :
    <<a, answer>> \in acked => Holds(results[a], answer) \/ NonFinalSent(a)

(* A final answer is recorded in the end, whatever callbacks crash and     *)
(* acknowledgements get lost, unless a non-final event got in its way.     *)
AnswerIsRecorded ==
  \A a \in Attempt : \A answer \in Answer :
    <<a, answer>> \in sent ~> Holds(results[a], answer) \/ NonFinalSent(a)

-----------------------------------------------------------------------------
(* "Final events only", says the callback before it looks at the event: a  *)
(* progress event does nothing to the reference it is about.               *)
OfferedIsAnswerable ==
  \A a \in offered : a \in pending \/ results[a] # <<>>
=============================================================================
