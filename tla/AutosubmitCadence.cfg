SPECIFICATION Spec
CONSTANTS
  Background = {b1, b2}
  Users = {u1}
  Schedulers = {cron}
  Interval = 2
  Period = 2
  None = None

PROPERTY EveryIntervalSubmits
