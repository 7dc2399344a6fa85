SPECIFICATION CalculationsSpec
CONSTANTS
  c1 = c1  c2 = c2  c3 = c3  b1 = b1  t1 = t1  r1 = r1  r2 = r2  r3 = r3
  Quantities = {0, 1, 7}
  Prices <- MCPrices
  Rates = {0, 825, 1000, 10001}
  INVOICE_MAX_LINE_ITEMS = 2
  MaxLines = 3
  Starts <- MCStarts
  Times = {9, 18}
  Cadences = {"WEEKLY", "MONTHLY", "QUARTERLY", "YEARLY"}
  Intervals = {0, 1, 5}
  MaxMonths = 24
  Backlogs = {0, 1, 7}
  GUARD = 4
  Lengths = {1, 6, 9, 20}
  targetTokens = 4
  overlapTokens = 2
  MaxSentences = 4
  Days = 4
  Horizon = 3
  WeekDays = 3
  Amounts = {1, 2, 4}
  Created <- MCCreated
  MaxInvoices = 4
  FORECAST_MIN_DATA_POINTS = 3
  Chunks = {c1, c2, c3}
  Stores <- MCStores
  RRF_K = 60
  Candidates = 3
  Limit = 3
  Characters <- MCCharacters
  Budget = 8
  MinScore = 10
  Fabricated <- MCFabricated
  Rows = {r1, r2, r3}
  Ranks = {1, 2, 3}
  PageSize = 1
  Lists <- MCLists
  MaxWrites = 2
  Bills = {b1}
  Chores = {t1}
  Month <- MCMonth
  Late = {t1}
  MAX_ATTEMPTS = 2
  MaxMoves = 2
  MaxBriefings = 1
INVARIANTS RoundingIsBounded SentencesAreKept TrendsContinue
INVARIANTS CitationsWereRetrieved FusionKeepsDominance WalksAreComplete FiguresAddUp
PROPERTIES PeriodsAreKept
CHECK_DEADLOCK FALSE
