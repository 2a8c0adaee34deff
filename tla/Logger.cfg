\* Two threads; texts and numbers around the limits of the 4 KB buffer and of
\* an int: 4064 and 4065 leave two bytes and one, 4033 just the room
\* that a number asks for.
SPECIFICATION Spec
CONSTANTS
  Threads = {t1, t2}
  Texts = {1, 4033, 4064, 4065}
  Numbers <- SomeNumbers
  NameSize = 7
  Line = 105
  MaxFields = 2
SYMMETRY Symmetry
INVARIANTS NoOverrun NumbersReadBack CompleteWhenItFits NewlineOrFull FatalIsWritten
CHECK_DEADLOCK FALSE
