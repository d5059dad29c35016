SPECIFICATION Spec
CONSTANTS
  MaxL = 2
  MaxC = 2
  Deployments = {TRUE, FALSE}
  Times = {0, 1, 3}
  Remotes <- MCRemotes
  MaxOver = 2
  MaxJournal = 3
  None = None
INVARIANTS
  TypeOK
  HlcOrderIsSeqOrder
  AheadOfJournal
  CausalWhenShared
  ReplyAfterEvent
