SPECIFICATION JournalSpec
CONSTANTS
  a = a
  b = b
  Appenders = {a, b}
  MaxAppends = 3
  MaxEntries = 2
CHECK_DEADLOCK FALSE
SYMMETRY Symmetry
INVARIANT JournalTypeOK ToldIsThereOnce
PROPERTY AppendOnly
