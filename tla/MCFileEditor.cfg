\* Safety: texts of up to 6 characters.
SPECIFICATION Spec
CONSTANTS
  a = a
  b = b
  Chars <- TwoChars
  Newline = Newline
  Files <- SomeFiles
  MaxChars = 6
PROPERTIES
  TextBufferSpec
