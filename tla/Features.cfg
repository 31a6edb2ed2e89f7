CONSTANTS
  Links = {x1, x2}
  Flushers = {y1, y2}
  NoLink = NoLink
  TTL = 0
  MaxClock = 1
  Actors = {x1, x2}
  Names = {y1, y2}
  Urls = {u1, u2}
  Tokens = {t1, t2}
  Handlers = {h1}
  NoToken = NoToken
  NoName = NoName
  NoUrl = NoUrl
  NoReferral = NoReferral
  Alike <- AllAlike
  MaxSeq = 2
  Users = {x1, x2}
  Messages <- RepMessages
  Updates = {y1, y2}
  Bot = Bot
  Author <- RepAuthor
  Regular = 1
  Admin = 2
  MaxIndex = 1
  Chats = {c1, c2}
  Texts = {y1, y2, z}
  Asks = {x1, x2}
  Retries = {r1}
  Sizes = {1, 2}
  MaxPerChat = 1
  MaxChats = 1
  GlobalMax = 1
  People <- Celebrants
  Born <- BornOn
  Calendar <- TwoYears
  ChunkSize = 2
  Collected = {"stats"}
  Walked = {"stats_daily"}
  Rows = {1, 2, 3}
  Months = {1, 2}
  MonthOf <- RowMonth
  MaxRedirects = 2
  Owners = {o1}
  ServiceNames = {y1, y2}
  Addresses = {x1, x2}
  MaxRef = 2
  Guessers = {x1, x2}
  Guesses = {y1, y2}
  NoRound = NoRound
  StaleAfter = 1
  MaxHour = 1
  MaxRound = 2
  MaxAttempts = 1
  MaxNamed = 2
  Letters = {x1, x2, l3}
  Words <- TwoWords
  Players = {y1, y2}
  NoBoard = NoBoard
  MaxWrong = 2
  StaleFor = 1
  LastHour = 1
  LastBoard = 2
  MostEnds = 2
  Questions = {"capital", "trivia"}
  Verb <- QuizVerb
  Solvers = {x1, x2}
  Taps = {y1, y2}
  Nobody = Nobody
  Fights = {f1}
  Voters = {y1, y2}
  Observers = {x1, x2}
  Duration = 1
  MaxMoment = 2
  Throwers = {x1, x2}
  Throws = {y1, y2}
  MaxValue = 2
  NoBest = NoBest
  Samples = {"a", "b"}
  Sent <- January
  Writers = {"ann", "bob"}
  Meta = "*"
  MonthFlushers = {y1, y2}
  Calendars = {1, 2}
  Strangers = {x1, x2}
  BotOwner = BotOwner
  Desks = {d1}
  NoticeLimit = 1
  NoRecord = NoRecord
  MaxNews = 3
  Gates = {y1, y2}
  Every <- TwoTicks
  SweepEvery = 3
  EvictAfter = 4
  LastTick = 9
  AdminChats = {x1, x2}
  Callers = {y1, y2}
  NoOne = NoOne
  AdminTTL = 1
  MaxChanges = 1
SPECIFICATION MCSpec
SYMMETRY Symm
CONSTRAINTS Narrow OneTable OwnerPromotes
CHECK_DEADLOCK FALSE
INVARIANTS FeaturesTypeOK OriginalKept NobodyLeftInSilence CatalogueSound CreditsReported
           CacheFresh GreetedOnce LinksSurvive RowsAccounted OneWinner GamesFair MonthsCounted GatesKept
PROPERTY DeletedAsShown
