SPECIFICATION Spec
CONSTANTS
  t1 = t1  photo = photo  scan = scan  blank = blank  new = new  old = old
  data = data  image = image  png = png
  f1 = f1  f2 = f2  r1 = r1  r2 = r2
  Contents = {new, old}
  Fields = {photo, scan, blank}
  Tcerts = {t1}
  Types = {data, image, png}
  Files <- Names
  Requests <- Workers
  TcertOf <- FieldTcert
  Declared <- FieldType
  Covers <- TypeCovers
  LegacyRows = {old}
  LegacyType = data
  Blank = {blank}
  LegacyRefs <- OldRefs
  NoFile = NoFile  NoRow = NoRow  NoContent = NoContent  NoField = NoField
  MaxAdmin = 2
SYMMETRY Symmetry
INVARIANT TypeOK
INVARIANT RowIsWhole
INVARIANT AcceptedIsServed
PROPERTY ImplementsContentStore
CHECK_DEADLOCK FALSE
