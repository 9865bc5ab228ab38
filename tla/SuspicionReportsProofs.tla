------------------------ MODULE SuspicionReportsProofs ------------------------
(***************************************************************************)
(* Theorems on SuspicionReports: types, and what holds of an ISAR and its  *)
(* STR reports however many requests overlap, and for any users and texts; *)
(* and on SuspicionHistory: what holds until two of them have overlapped.  *)
(***************************************************************************)
EXTENDS SuspicionHistory, SequenceTheorems, FiniteSetTheorems, TLAPS

-----------------------------------------------------------------------------
(* What a request remembers stays true of the row: an approver that it has *)
(* seen is never replaced by anyone but an approver, and a filing that it  *)
(* has seen has its report.                                                *)
ApprovalSeen(row) == row.status \in {"approved", "filed_as_str"} => row.approved_by \in Approver

Remembers(q) ==
  /\ May(q.by, q.op)
  /\ q.seen.status \in From(q.op)
  /\ ApprovalSeen(q.seen)
  /\ q.seen.approved_by \in Approver => isar.approved_by \in Approver

IInv ==
  /\ TypeOK
  /\ ApprovalSeen(isar)
  /\ StrNeedsApproval
  /\ FiledHasReport
  /\ \A r \in Request : req[r] # Idle => Remembers(req[r])

-----------------------------------------------------------------------------
LEMMA LoadedRequest ==
  ASSUME TypeOK, NEW r \in Request, req[r] # Idle
  PROVE  req[r] \in Loaded
BY DEF TypeOK

(* A handler leaves a row of the right type in its session. *)
LEMMA AfterType ==
  ASSUME NEW q \in Loaded, May(q.by, q.op)
  PROVE  After(q) \in Isar
<1>1. q.seen \in Isar /\ q.by \in User /\ q.text \in Text /\ q.op \in Op
  BY DEF Loaded
<1>2. CASE q.op = "update"
  BY <1>1, <1>2 DEF After, Isar
<1>3. CASE q.op = "submit"
  BY <1>1, <1>3 DEF After, Isar, IsarStatus
<1>4. CASE q.op = "approve"
  BY <1>1, <1>4 DEF After, Isar, IsarStatus
<1>5. CASE q.op = "reject"
  BY <1>1, <1>5 DEF After, Isar, IsarStatus
<1>6. CASE q.op = "revise"
  BY <1>1, <1>6 DEF After, Revised, Isar, IsarStatus
<1>7. CASE q.op = "file"
  BY <1>1, <1>7 DEF After, Isar, IsarStatus
<1>8. CASE q.op = "generate"
  BY <1>1, <1>8 DEF After
<1> QED
  BY <1>1, <1>2, <1>3, <1>4, <1>5, <1>6, <1>7, <1>8 DEF Op

LEMMA MergeType ==
  ASSUME NEW seen \in Isar, NEW new \in Isar, NEW now \in Isar
  PROVE  Merge(seen, new, now) \in Isar
BY DEF Merge, Column, Isar

(* What a handler changes of the two columns the theorems are about. *)
LEMMA AfterColumns ==
  ASSUME NEW q \in Loaded
  PROVE  /\ After(q).approved_by = IF q.op = "approve" THEN q.by ELSE q.seen.approved_by
         /\ After(q).status \in {"approved", "filed_as_str"} =>
              \/ q.op = "approve"
              \/ q.op = "file"
              \/ After(q).status = q.seen.status
         /\ After(q).status = "filed_as_str" =>
              q.op = "file" \/ After(q).status = q.seen.status
<1>1. q.seen \in Isar /\ q.op \in Op
  BY DEF Loaded
<1>2. CASE q.op \in {"update", "generate"}
  BY <1>1, <1>2 DEF After, Isar
<1>3. CASE q.op \in {"submit", "reject"}
  BY <1>1, <1>3 DEF After, Isar
<1>4. CASE q.op = "approve"
  BY <1>1, <1>4 DEF After, Isar
<1>5. CASE q.op = "revise"
  BY <1>1, <1>5 DEF After, Revised, Isar
<1>6. CASE q.op = "file"
  BY <1>1, <1>6 DEF After, Isar
<1> QED
  BY <1>1, <1>2, <1>3, <1>4, <1>5, <1>6 DEF Op

LEMMA MergedColumns ==
  ASSUME NEW seen, NEW new, NEW now
  PROVE  /\ Merge(seen, new, now).status = Column(seen.status, new.status, now.status)
         /\ Merge(seen, new, now).approved_by =
              Column(seen.approved_by, new.approved_by, now.approved_by)
BY DEF Merge

LEMMA GeneratedType ==
  ASSUME NEW q \in Loaded
  PROVE  /\ Generated(q) \in Seq(Text)
         /\ q.op \in {"file", "generate"} => Generated(q) # <<>>
         /\ q.op \notin {"file", "generate"} => Generated(q) = <<>>
BY DEF Generated, Loaded, Isar

LEMMA AppendedReports ==
  ASSUME NEW s \in Seq(Text), NEW t \in Seq(Text)
  PROVE  /\ s \o t \in Seq(Text)
         /\ s \o t = <<>> <=> s = <<>> /\ t = <<>>
BY ConcatProperties, LenProperties, EmptySeq, ConcatEmptySeq

-----------------------------------------------------------------------------
LEMMA InitIInv == Init => IInv
<1> SUFFICES ASSUME Init PROVE IInv
  OBVIOUS
<1>1. isar \in Isar /\ isar.status = "draft" /\ reports = <<>>
  BY DEF Init, Isar, IsarStatus
<1>2. TypeOK
  BY <1>1 DEF Init, TypeOK
<1> QED
  BY <1>1, <1>2 DEF Init, IInv, ApprovalSeen, StrNeedsApproval, FiledHasReport

LEMMA LoadIInv ==
  ASSUME IInv, NEW r \in Request, Load(r)
  PROVE  IInv'
<1>1. PICK op \in Op, u \in User, text \in Text :
        /\ May(u, op) /\ isar.status \in From(op)
        /\ req' = [req EXCEPT ![r] = [op |-> op, by |-> u, text |-> text, seen |-> isar]]
  BY DEF Load
<1>2. isar' = isar /\ reports' = reports
  BY DEF Load
<1>3. req \in [Request -> Loaded \cup {Idle}] /\ isar \in Isar /\ ApprovalSeen(isar)
  BY DEF IInv, TypeOK
<1>4. PICK q : q = [op |-> op, by |-> u, text |-> text, seen |-> isar]
  OBVIOUS
<1>5. q \in Loaded
  BY <1>3, <1>4 DEF Loaded
<1>6. Remembers(q)
  BY <1>1, <1>3, <1>4 DEF Remembers
<1>7. TypeOK'
  BY <1>1, <1>2, <1>3, <1>4, <1>5 DEF IInv, TypeOK
<1>8. \A s \in Request : req'[s] # Idle => Remembers(req[s])'
  <2> SUFFICES ASSUME NEW s \in Request, req'[s] # Idle PROVE Remembers(req[s])'
    OBVIOUS
  <2>1. CASE s = r
    BY <1>1, <1>2, <1>3, <1>4, <1>6, <2>1 DEF Remembers, ApprovalSeen
  <2>2. CASE s # r
    <3>1. req'[s] = req[s]
      BY <1>1, <1>3, <2>2
    <3> QED
      BY <1>2, <3>1 DEF IInv, Remembers, ApprovalSeen
  <2> QED
    BY <2>1, <2>2
<1> QED
  BY <1>2, <1>3, <1>7, <1>8 DEF IInv, ApprovalSeen, StrNeedsApproval, FiledHasReport

LEMMA CommitIInv ==
  ASSUME IInv, NEW r \in Request, Commit(r)
  PROVE  IInv'
<1>1. PICK q : q = req[r]
  OBVIOUS
<1>2. /\ q # Idle
      /\ isar' = Merge(q.seen, After(q), isar)
      /\ reports' = reports \o Generated(q)
      /\ req' = [req EXCEPT ![r] = Idle]
  BY <1>1 DEF Commit
<1>3. q \in Loaded /\ Remembers(q)
  BY <1>1, <1>2, LoadedRequest DEF IInv
<1>4. /\ isar \in Isar /\ reports \in Seq(Text) /\ req \in [Request -> Loaded \cup {Idle}]
      /\ ApprovalSeen(isar) /\ StrNeedsApproval /\ FiledHasReport
  BY DEF IInv, TypeOK
<1>5. q.seen \in Isar /\ q.op \in Op
  BY <1>3 DEF Loaded
<1>6. isar' \in Isar
  BY <1>2, <1>3, <1>4, <1>5, AfterType, MergeType DEF Remembers
<1>7. TypeOK'
  BY <1>2, <1>3, <1>4, <1>6, GeneratedType, AppendedReports DEF TypeOK
<1>8. /\ isar'.status = Column(q.seen.status, After(q).status, isar.status)
      /\ isar'.approved_by = Column(q.seen.approved_by, After(q).approved_by, isar.approved_by)
  BY <1>2, MergedColumns
<1>9. q.op = "approve" => isar'.approved_by \in Approver
  BY <1>3, <1>8, AfterColumns DEF Remembers, May, Column
<1>10. q.op # "approve" => isar'.approved_by = isar.approved_by
  BY <1>3, <1>8, AfterColumns DEF Column
<1>11. q.op \in {"file", "generate"} => isar.approved_by \in Approver
  BY <1>3 DEF Remembers, From, ApprovalSeen
<1>12. reports' # <<>> => reports # <<>> \/ q.op \in {"file", "generate"}
  BY <1>2, <1>3, <1>4, GeneratedType, AppendedReports
<1>13. reports # <<>> \/ q.op = "file" => reports' # <<>>
  BY <1>2, <1>3, <1>4, GeneratedType, AppendedReports
<1>14. isar'.status \in {"approved", "filed_as_str"} =>
         q.op \in {"approve", "file"} \/ isar'.status = isar.status
  BY <1>3, <1>8, AfterColumns DEF Column
<1>15. isar'.status = "filed_as_str" => q.op = "file" \/ isar.status = "filed_as_str"
  BY <1>3, <1>8, AfterColumns DEF Column
<1>16. ApprovalSeen(isar)'
  BY <1>4, <1>9, <1>10, <1>11, <1>14 DEF ApprovalSeen
<1>17. StrNeedsApproval'
  BY <1>4, <1>9, <1>10, <1>11, <1>12, <1>15 DEF StrNeedsApproval
<1>18. FiledHasReport'
  BY <1>4, <1>13, <1>15 DEF FiledHasReport
<1>19. \A s \in Request : req'[s] # Idle => Remembers(req[s])'
  <2> SUFFICES ASSUME NEW s \in Request, req'[s] # Idle PROVE Remembers(req[s])'
    OBVIOUS
  <2>1. req'[s] = req[s]
    BY <1>2, <1>4
  <2>2. Remembers(req[s])
    BY <2>1 DEF IInv
  <2>3. isar.approved_by \in Approver => isar'.approved_by \in Approver
    BY <1>9, <1>10
  <2> QED
    BY <2>1, <2>2, <2>3 DEF Remembers, ApprovalSeen
<1> QED
  BY <1>7, <1>16, <1>17, <1>18, <1>19 DEF IInv

LEMMA AbortIInv ==
  ASSUME IInv, NEW r \in Request, Abort(r)
  PROVE  IInv'
<1>1. req' = [req EXCEPT ![r] = Idle] /\ isar' = isar /\ reports' = reports
  BY DEF Abort
<1>2. req \in [Request -> Loaded \cup {Idle}]
  BY DEF IInv, TypeOK
<1>3. TypeOK'
  BY <1>1, <1>2 DEF IInv, TypeOK
<1>4. \A s \in Request : req'[s] # Idle => req'[s] = req[s]
  BY <1>1, <1>2
<1> QED
  BY <1>1, <1>3, <1>4 DEF IInv, Remembers, ApprovalSeen, StrNeedsApproval, FiledHasReport

LEMMA NextIInv == IInv /\ [Next]_vars => IInv'
<1> SUFFICES ASSUME IInv, [Next]_vars PROVE IInv'
  OBVIOUS
<1>1. CASE Next
  BY <1>1, LoadIInv, CommitIInv, AbortIInv DEF Next
<1>2. CASE UNCHANGED vars
  BY <1>2 DEF vars, IInv, TypeOK, Remembers, ApprovalSeen, StrNeedsApproval, FiledHasReport
<1> QED
  BY <1>1, <1>2

LEMMA AlwaysIInv == Spec => []IInv
BY InitIInv, NextIInv, PTL DEF Spec

-----------------------------------------------------------------------------
(* The ISAR, its reports and the requests under way are of their types.    *)
THEOREM TypeCorrect == Spec => []TypeOK
<1>1. IInv => TypeOK
  BY DEF IInv
<1> QED
  BY <1>1, AlwaysIInv, PTL

(* No STR report and no filing comes without an approver's decision,       *)
(* however the requests of any number of users overlap.                    *)
THEOREM ReportsNeedApproval == Spec => []StrNeedsApproval
<1>1. IInv => StrNeedsApproval
  BY DEF IInv
<1> QED
  BY <1>1, AlwaysIInv, PTL

(* A filed ISAR has an STR report, however the requests overlap. *)
THEOREM FilingLeavesReport == Spec => []FiledHasReport
<1>1. IInv => FiledHasReport
  BY DEF IInv
<1> QED
  BY <1>1, AlwaysIInv, PTL

-----------------------------------------------------------------------------
(* Until two requests have overlapped, the one under way has read the row  *)
(* as it is.                                                               *)
Alone ==
  /\ \A r, s \in UnderWay : r = s
  /\ \A r \in UnderWay : req[r].seen = isar

ReportsFit ==
  \A n \in 1..Len(reports) :
    isar.status \in {"approved", "filed_as_str"} /\ reports[n] = isar.text

ReviewFits(row) ==
  /\ row.rationale <=> row.status = "rejected"
  /\ row.status = "rejected" => row.reviewed_by \in Approver
  /\ row.status \in {"approved", "filed_as_str"} =>
       row.reviewed_by = row.approved_by /\ row.approved_by \in Approver

HInv == /\ IsFiniteSet(UnderWay)
        /\ ~overlapped => Alone /\ ReportsFit /\ ReviewFits(isar)

(* A count that is not above one. *)
LEMMA NoTwo ==
  ASSUME NEW S, IsFiniteSet(S), ~(Cardinality(S) > 1)
  PROVE  \A x, y \in S : x = y
<1> SUFFICES ASSUME NEW x \in S, NEW y \in S, x # y PROVE FALSE
  OBVIOUS
<1>1. IsFiniteSet(S \ {x}) /\ Cardinality(S \ {x}) = Cardinality(S) - 1
  BY FS_RemoveElement
<1>2. Cardinality(S \ {x}) \in Nat /\ Cardinality(S) \in Nat
  BY <1>1, FS_CardinalityType
<1>3. Cardinality(S \ {x}) = 0
  BY <1>1, <1>2
<1>4. S \ {x} = {}
  BY <1>1, <1>3, FS_EmptySet
<1> QED BY <1>4

(* A request that read the row as it is leaves what its handler made. *)
LEMMA MergeOfSeen ==
  ASSUME NEW row \in Isar, NEW new \in Isar
  PROVE  Merge(row, new, row) = new
<1>1. Merge(row, new, row) \in Isar
  BY MergeType
<1> QED BY <1>1 DEF Merge, Column, Isar

(* What each handler makes of a row whose review fits. *)
LEMMA HandlerFits ==
  ASSUME NEW q \in Loaded, Remembers(q), ReviewFits(q.seen)
  PROVE  /\ ReviewFits(After(q))
         /\ After(q).text # q.seen.text => q.seen.status = "draft"
         /\ q.seen.status \in {"approved", "filed_as_str"} =>
              After(q).status \in {"approved", "filed_as_str"}
         /\ q.op \in {"file", "generate"} =>
              q.seen.status \in {"approved", "filed_as_str"}
<1>1. q.seen \in Isar /\ q.op \in Op
  BY DEF Loaded
<1>2. q.op \in {"approve", "reject", "file"} => q.by \in Approver
  BY DEF Remembers, May
<1>3. CASE q.op = "update"
  BY <1>1, <1>3 DEF Remembers, From, After, ReviewFits, Isar
<1>4. CASE q.op = "submit"
  BY <1>1, <1>4 DEF Remembers, From, After, ReviewFits, Isar
<1>5. CASE q.op = "approve"
  BY <1>1, <1>2, <1>5 DEF Remembers, From, After, ReviewFits, Isar
<1>6. CASE q.op = "reject"
  BY <1>1, <1>2, <1>6 DEF Remembers, From, After, ReviewFits, Isar
<1>7. CASE q.op = "revise"
  BY <1>1, <1>7 DEF Remembers, From, After, Revised, ReviewFits, Isar
<1>8. CASE q.op = "file"
  BY <1>1, <1>8 DEF Remembers, From, After, ReviewFits, Isar
<1>9. CASE q.op = "generate"
  BY <1>1, <1>9 DEF Remembers, From, After, ReviewFits, Isar
<1> QED BY <1>1, <1>3, <1>4, <1>5, <1>6, <1>7, <1>8, <1>9 DEF Op

(* The reports once the commit has added its own. *)
LEMMA ReportsAfterCommit ==
  ASSUME NEW s \in Seq(Text), NEW q \in Loaded, NEW n \in 1..Len(s \o Generated(q))
  PROVE  \/ n \in 1..Len(s) /\ (s \o Generated(q))[n] = s[n]
         \/ q.op \in {"file", "generate"} /\ (s \o Generated(q))[n] = q.seen.text
<1>1. Generated(q) \in Seq(Text) /\ Len(s) \in Nat
  BY GeneratedType, LenProperties
<1>2. CASE q.op \in {"file", "generate"}
  <2>1. Generated(q) = <<q.seen.text>> /\ Len(Generated(q)) = 1
    BY <1>2 DEF Generated
  <2> QED BY <1>1, <1>2, <2>1, ConcatProperties
<1>3. CASE q.op \notin {"file", "generate"}
  <2>1. Generated(q) = <<>>
    BY <1>3 DEF Generated
  <2> QED BY <2>1, ConcatEmptySeq
<1> QED BY <1>2, <1>3

LEMMA LoadHInv ==
  ASSUME IInv, HInv, NEW r \in Request, Load(r),
         overlapped' = (overlapped \/ Cardinality(UnderWay') > 1)
  PROVE  HInv'
<1>1. PICK op \in Op, u \in User, text \in Text :
        req' = [req EXCEPT ![r] = [op |-> op, by |-> u, text |-> text, seen |-> isar]]
  BY DEF Load
<1>2. req \in [Request -> Loaded \cup {Idle}] /\ isar' = isar /\ reports' = reports
  BY DEF Load, IInv, TypeOK
<1>3. UnderWay' \subseteq UnderWay \cup {r} /\ req'[r].seen = isar
  BY <1>1, <1>2 DEF UnderWay
<1>4. IsFiniteSet(UnderWay \cup {r})
  BY FS_AddElement DEF HInv
<1>5. IsFiniteSet(UnderWay')
  BY <1>3, <1>4, FS_Subset
<1>6. ASSUME ~overlapped' PROVE Alone' /\ ReportsFit' /\ ReviewFits(isar')
  <2>1. \A x, y \in UnderWay' : x = y
    BY <1>5, <1>6, NoTwo
  <2>2. r \in UnderWay'
    <3>1. req'[r] \in Loaded
      BY <1>1, <1>2 DEF Loaded, IInv, TypeOK
    <3>2. req'[r] # Idle
      BY <1>1, <1>2 DEF Idle
    <3> QED BY <3>2 DEF UnderWay
  <2>3. Alone'
    BY <1>2, <1>3, <2>1, <2>2 DEF Alone
  <2> QED BY <1>2, <1>6, <2>3 DEF HInv, ReportsFit
<1> QED BY <1>5, <1>6 DEF HInv

LEMMA CommitHInv ==
  ASSUME IInv, HInv, NEW r \in Request, Commit(r),
         overlapped' = (overlapped \/ Cardinality(UnderWay') > 1)
  PROVE  HInv'
<1>1. PICK q : q = req[r]
  OBVIOUS
<1>2. /\ q # Idle /\ r \in UnderWay
      /\ isar' = Merge(q.seen, After(q), isar)
      /\ reports' = reports \o Generated(q)
      /\ req' = [req EXCEPT ![r] = Idle]
  BY <1>1 DEF Commit, UnderWay
<1>3. /\ req \in [Request -> Loaded \cup {Idle}] /\ isar \in Isar /\ reports \in Seq(Text)
      /\ q \in Loaded /\ Remembers(q)
  BY <1>1, <1>2, LoadedRequest DEF IInv, TypeOK
<1>4. UnderWay' \subseteq UnderWay \ {r}
  BY <1>2, <1>3 DEF UnderWay
<1>5. IsFiniteSet(UnderWay')
  BY <1>4, FS_Subset DEF HInv
<1>6. ASSUME ~overlapped' PROVE Alone' /\ ReportsFit' /\ ReviewFits(isar')
  <2>1. Alone /\ ReportsFit /\ ReviewFits(isar)
    BY <1>6 DEF HInv
  <2>2. q.seen = isar /\ UnderWay' = {}
    BY <1>1, <1>2, <1>4, <2>1 DEF Alone
  <2>3. After(q) \in Isar
    BY <1>3, AfterType DEF Remembers
  <2>4. isar' = After(q)
    BY <1>2, <1>3, <2>2, <2>3, MergeOfSeen
  <2>5. /\ ReviewFits(isar')
        /\ isar'.text # isar.text => isar.status = "draft"
        /\ isar.status \in {"approved", "filed_as_str"} =>
             isar'.status \in {"approved", "filed_as_str"}
        /\ q.op \in {"file", "generate"} => isar.status \in {"approved", "filed_as_str"}
    BY <1>3, <2>1, <2>2, <2>4, HandlerFits
  <2>6. ReportsFit'
    <3> SUFFICES ASSUME NEW n \in 1..Len(reports')
                 PROVE  /\ isar'.status \in {"approved", "filed_as_str"}
                        /\ reports'[n] = isar'.text
      BY DEF ReportsFit
    <3>1. \/ n \in 1..Len(reports) /\ reports'[n] = reports[n]
          \/ q.op \in {"file", "generate"} /\ reports'[n] = isar.text
      BY <1>2, <1>3, <2>2, ReportsAfterCommit
    <3>2. isar.status \in {"approved", "filed_as_str"} /\ reports'[n] = isar.text
      BY <2>1, <2>5, <3>1 DEF ReportsFit
    <3> QED BY <2>5, <3>2
  <2> QED BY <2>2, <2>5, <2>6 DEF Alone
<1> QED BY <1>5, <1>6 DEF HInv

LEMMA AbortHInv ==
  ASSUME IInv, HInv, NEW r \in Request, Abort(r),
         overlapped' = (overlapped \/ Cardinality(UnderWay') > 1)
  PROVE  HInv'
<1>1. /\ req' = [req EXCEPT ![r] = Idle] /\ isar' = isar /\ reports' = reports
      /\ req \in [Request -> Loaded \cup {Idle}]
  BY DEF Abort, IInv, TypeOK
<1>2. UnderWay' \subseteq UnderWay /\ \A s \in UnderWay' : req'[s] = req[s]
  BY <1>1 DEF UnderWay
<1>3. IsFiniteSet(UnderWay')
  BY <1>2, FS_Subset DEF HInv
<1>4. ~overlapped' => Alone' /\ ReportsFit' /\ ReviewFits(isar')
  BY <1>1, <1>2 DEF HInv, Alone, ReportsFit
<1> QED BY <1>3, <1>4 DEF HInv

LEMMA NextHInv == IInv /\ HInv /\ [HistoryNext]_<<vars, overlapped>> => HInv'
<1> SUFFICES ASSUME IInv, HInv, [HistoryNext]_<<vars, overlapped>> PROVE HInv'
  OBVIOUS
<1>1. CASE HistoryNext
  BY <1>1, LoadHInv, CommitHInv, AbortHInv DEF HistoryNext, Next
<1>2. CASE UNCHANGED <<vars, overlapped>>
  BY <1>2 DEF vars, HInv, Alone, UnderWay, ReportsFit
<1> QED BY <1>1, <1>2

LEMMA InitHInv == HistoryInit => HInv
<1> SUFFICES ASSUME HistoryInit PROVE HInv
  OBVIOUS
<1>1. UnderWay = {}
  BY DEF HistoryInit, Init, UnderWay
<1>2. ReportsFit /\ ReviewFits(isar)
  BY DEF HistoryInit, Init, ReportsFit, ReviewFits
<1> QED BY <1>1, <1>2, FS_EmptySet DEF HInv, Alone

LEMMA AlwaysHInv == HistorySpec => []HInv
<1>1. HistoryInit => Init
  BY DEF HistoryInit
<1>2. [HistoryNext]_<<vars, overlapped>> => [Next]_vars
  BY DEF HistoryNext, vars
<1>3. HistorySpec => []IInv
  BY <1>1, <1>2, InitIInv, NextIInv, PTL DEF HistorySpec
<1> QED BY <1>3, InitHInv, NextHInv, PTL DEF HistorySpec

(* Until two requests on an ISAR have overlapped, what was reported is     *)
(* what the MLRO approved: the ISAR stays approved or filed with the text  *)
(* of its reports, however often it was rejected and revised before.       *)
THEOREM ReportsAreApproved == HistorySpec => []ReportsAreApprovedText
<1>1. HInv => ReportsAreApprovedText
  BY DEF HInv, ReportsFit, ReportsAreApprovedText
<1> QED BY <1>1, AlwaysHInv, PTL

(* Until then the traces of the review fit the status: a rationale exactly *)
(* while it is rejected, and the approver is who reviewed it last.         *)
THEOREM ReviewAlwaysFits == HistorySpec => []ReviewFitsStatus
<1>1. HInv => ReviewFitsStatus
  BY DEF HInv, ReviewFits, ReviewFitsStatus
<1> QED BY <1>1, AlwaysHInv, PTL
=============================================================================
