CONSTANTS
  Writers = {"printk"}
  Chars = {"a", "b"}
  BufLen = 2
  Half = 4
SPECIFICATION DlogSpec
INVARIANTS RingExact FlushExact
