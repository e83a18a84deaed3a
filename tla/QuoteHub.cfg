SPECIFICATION Spec
CONSTANTS
  Subs = {s1, s2}
  Tickers = {aapl, tsla}
  Symbols = {aapl, tsla, zzz}
  MaxBatches = 3
INVARIANTS TypeOK NoGap NoWaste ListedOnce
PROPERTIES StableWhileWalked ImplementsFeed Delivered
