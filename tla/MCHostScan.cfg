CONSTANTS
  a = a
  b = b
  root = root
  sub = sub
  mal = mal
  zip = zip
  link = link
  m = m
  n = n
  u = u
  Paths = {a, b}
  Contents = {mal, zip, link}
  Absent = Absent
  Special = {link}
  Links = {link}
  LinkTo <- MCLinkTo
  Flags <- MCFlags
  MaxChanges = 2
  Dirs = {root, sub}
  Root = root
  DirOf <- MCDirOf
  Oversize = {}
  Archives = {zip}
  Members = {m, n, u}
  Itself = Itself
  Outcomes <- MCOutcomes
  Unencodable = {u}
  NoPath = NoPath
  NoReport = NoReport
  NoScan = NoScan
SPECIFICATION Spec
INVARIANTS TypeOK ReportComplete ExitTruthful CountsRight LogExact
PROPERTIES LastWriteScanned
CHECK_DEADLOCK FALSE
