\* Four files, three rows, two uploads at a time.
CONSTANTS
  f1 = f1  f2 = f2  f3 = f3  scan = scan  t1 = t1  t2 = t2  t3 = t3
  i1 = i1  i2 = i2  i3 = i3  r1 = r1  r2 = r2  Nothing = Nothing
  Files = {f1, f2, f3, scan}  Requests = {r1, r2}  Ids = {i1, i2, i3}
  Tokens = {t1, t2, t3}  TextOf <- Text  TokenBits <- WordBits
  Bits = {1, 2, 3, 4}  Bands = {1, 2}  BandOf <- TwoBands
  Thresholds = {1, 2}
SYMMETRY Alike
SPECIFICATION Spec
INVARIANTS
  OneLiveRowPerFile
PROPERTIES FlaggedAgainstOlder RetriesAreFree
