SPECIFICATION FairServerSpec
CONSTANTS
  Bodies <- TestBodies
  Texts <- TestTexts
  Inboxes <- TestInboxes
  Documents <- TestDocuments
  Refreshes = {f1, f2}
  Schemes <- TestSchemes
  Requests <- TestRequests
  Times = {2, 3}
  Leeway = 1
  Width = 16
INVARIANTS
  AnsweredInOrder
  StoredAsSent
  CutsDoNotShow
  KeysAreOneDocument
  OnlyAuthorized
PROPERTIES
  AnswersEnd
CHECK_DEADLOCK FALSE
