SPECIFICATION FairTickerSpec
CONSTANTS
  p1 = p1
  w1 = w1
  w2 = w2
  Tasks = {1}
  Tickers = {p1}
  Workers = {w1, w2}
  Cron <- TwoMoments
  Interval = 2
  RandomDelay <- OneSecond
  RetryCount <- Once
  RetryDelay = 1
  MaxTime = 5
  MaxActs = 1
INVARIANTS
  OnlyStaleRepeats
PROPERTIES
  MomentIsAnswered
