\* Up to six bytes: room for all pairs of arguments but the longest with a longer one.
CONSTANTS
  Blanks <- MCBlanks
  Args <- MCArgs
  MaxBytes = 6
SPECIFICATION StrSpec
INVARIANTS
  StrInv
  WholeCharacters
PROPERTIES
  ImplementsCharacters
