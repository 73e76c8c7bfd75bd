CONSTANTS
  pa = pa
  pb = pb
  xa = xa
  xb = xb
  ta = ta
  tb = tb
  ma = ma
  mb = mb
  nobody = nobody
  Process <- MCProcess
  Partner <- MCPartner
  Token <- MCToken
  FirstNumbers <- MCFirstNumbers
  NoToken <- nobody
  Message <- MCMessage
  From <- MCFrom
  Silent = {mb}
  MaxFaults = 1
  MaxEdits = 2
SPECIFICATION GwFairSpec
INVARIANTS
  GwTypeOK
  OneChatPerPartner
  LostOnlyAfterProbe
  ContactsNeverMuted
PROPERTIES
  MessagesAnswered
CHECK_DEADLOCK FALSE
