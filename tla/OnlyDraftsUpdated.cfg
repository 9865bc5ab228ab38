SPECIFICATION HistorySpec
CONSTANTS
  r1 = r1
  r2 = r2
  mlro = mlro
  admin = admin
  analyst = analyst
  t1 = t1
  t2 = t2
  NoOne = NoOne
  Request <- MCRequest
  User <- MCUser
  Approver <- MCApprover
  Text <- MCText
  MaxReports = 2
PROPERTY OnlyDraftsUpdated
