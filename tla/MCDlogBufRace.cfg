CONSTANTS
  Writers = {"printk", "printf"}
  Chars = {"a"}
  BufLen = 4
  Half = 8
SPECIFICATION DlogSpec
INVARIANT FewCharacters
