SPECIFICATION KeysSpec
CONSTANTS
  Keys = {k1, k2}
  Formats = {eth}
  Names = {n1}
  NoName = noName
  EncKeys = {e1, e2}
  NoEnc = noEnc
  Requests = {r1, r2}
  NoRow = noRow
  Ops = {"create", "get", "sign", "list", "export", "delete"}
  MaxSeals = 2
CONSTRAINT FewSeals
SYMMETRY Symmetry
INVARIANT TypeOK NamesUnique SignedByItsAccount KeysStayEntrusted
PROPERTY ImplementsStore
