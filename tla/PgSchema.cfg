\* All dumps of up to four pieces; the length of names and of the hash are scaled down.
CONSTANTS
  MaxPieces = 4
  Dumps <- MCDumps
  Spelling <- MCSpelling
  Chars = {"a", "x", "y", "z", "underscore"}
  MaxPgNameLen = 7
  HashLen = 2
  Digest <- MCDigest
SPECIFICATION SchemaSpec
INVARIANTS
  TablesAreConverted
  TextsAreSegments
  TablesStayApart
