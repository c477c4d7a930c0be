SPECIFICATION MCSpec
CONSTANTS
  MaxRequests = 4
  MaxChunks = 1
  MaxSubrequests = 3
  MaxErrors = 1
  Streams <- AllStreams
  HeaderSize = 2
  LargeSize = 3
  Num = 2
  BodySize = 2
  Configs <- AllConfigs
  Server = server
  Locations = {plain, any, inner}
  Named = {named}
  Internal = {inner}
  SatisfyAny = {any}
  Recursive = {any, named}
  Handled = {inner}
  MaxChanges = 10
  Width = 16
  Chars = {"x", "/", ".", "%", "?", "#"}
  First = {"0", "2", "3", "x"}
  Second = {"0", "3", "5", "e", "f", "x"}
  MaxLen = 8
  Names = {a, b}
  Users = {u1, u2}
  Files = {f1, f2}
  Nothing = Nothing
  Directory = Directory
  MaxEntries = 1
  MinUses = 2
  BackAgain = FALSE
INVARIANTS DocumentOrder CountExact Framing Attended Guarded Bounded Normalized Descriptors
PROPERTY AllEnd
