CONSTANTS
  Chars = {"a", "b"}
  BufLen = 2
  Half = 4
SPECIFICATION RamFairSpec
INVARIANTS CrashKeepsLog SavedBeforeReuse
PROPERTIES NoLogAfterPowerOff RecordingResumes
