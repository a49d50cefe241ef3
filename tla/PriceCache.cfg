CONSTANTS
  Ticker = {t1, t2}
  Basket = {{t1, t2}}
  Caller = {c1, c2}
  LastDay = 3
  FirstDay = 2
SPECIFICATION Spec
SYMMETRY Symmetry
INVARIANTS TypeOK NoGap UpToDate
