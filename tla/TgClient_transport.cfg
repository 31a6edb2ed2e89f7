CONSTANTS
  ServerBudget = 2
  Calls = {c1}
  Chats = {old, mid, new}
  NoChat = NoChat
  TransportBudget <- MediaBudget
  MaxRounds = 2
SPECIFICATION Spec
INVARIANT TransportFaultUnsent
