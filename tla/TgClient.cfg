CONSTANTS
  ServerBudget = 2
  Calls = {c1, c2}
  Chats = {old, mid, new}
  NoChat = NoChat
  TransportBudget <- MediaBudget
  MaxRounds = 2
SPECIFICATION Spec
SYMMETRY Symm
CONSTRAINT FewTogether
INVARIANTS TypeOK SentWhole BudgetKept ReplayAfterRewrite
