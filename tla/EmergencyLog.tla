---------------------------- MODULE EmergencyLog ----------------------------
(***************************************************************************)
(* The emergency log of kernel/dtvlogd.c: every printed character is also  *)
(* put into a RAM area that survives a reset, and the daemon of the next   *)
(* boot saves that area to /mtd_rwarea/emeg_log.txt.                       *)
(*                                                                         *)
(* A reset may come between any two steps.  It keeps the RAM area (ram,    *)
(* magic, info), keeps as much of the file as had reached the flash, and   *)
(* clears the kernel's variables.                                          *)
(*                                                                         *)
(* Characters are put one at a time; what overlapping calls of             *)
(* dlogbuf_write() do to a ring is the subject of DlogBuf.  A call may     *)
(* overlap the daemon's reset of the indices (torn): the three stores      *)
(* of that reset are one step, so no property speaks of that case.         *)
(***************************************************************************)
EXTENDS LogRing

(* "none" stands for no character. *)
ASSUME EmergencyLogAssumption == "none" \notin Chars

VARIABLES ram,    \* the characters behind ram_char_buf
          magic,  \* the first word behind ram_info_buf: 0xbabe or not
          info,   \* the three other words: start, end and chars
          file,   \* emeg_log.txt
          ramwrite_start, ram_clear_flush,
          drambuf,     \* drambuf_start, drambuf_end and drambuf_chars
          writer,      \* where dlogbuf_write() is
          stage,       \* where the daemon is; "off" while the TV is off
          flush_text,  \* the text ram_flush() read
          cur,         \* the character being put, or "none"
          rec,         \* auxiliary: the last characters of the recording in ram
          torn,        \* auxiliary: that recording was put in while indices were reset
          switchedOff  \* auxiliary: a power off command came after rambuf_init()

ramArea == <<ram, magic, info, file>>
kernel == <<ramwrite_start, ram_clear_flush, drambuf, writer, stage, flush_text>>
ghosts == <<cur, rec, torn, switchedOff>>
ramVars == <<ramArea, kernel, ghosts>>

DRAM_INDEX(i) == i % BufLen   \* i & DRAM_BUF_MASK
Indices == [start : Ints, end : Ints, chars : 0 .. BufLen]
NoIndices == [start |-> 0, end |-> 0, chars |-> 0]

RamTypeOK ==
  /\ ram \in [0 .. BufLen - 1 -> Chars \cup {"nul"}]
  /\ magic \in {"0xbabe", "other"}
  /\ info \in Indices /\ drambuf \in Indices
  /\ ramwrite_start \in BOOLEAN /\ ram_clear_flush \in BOOLEAN
  /\ writer \in {"idle", "advance", "start", "end", "chars"}
  /\ stage \in {"off", "init", "initZero", "initMagic", "wait", "open", "copy",
                 "write", "resume", "zero", "done", "failed", "run"}
  /\ cur \in Chars \cup {"none"}
  /\ torn \in BOOLEAN /\ switchedOff \in BOOLEAN
  /\ \A s \in {file, flush_text, rec} :
       \A i \in 1 .. Len(s) : s[i] \in Chars \cup {"nul"}

(* A TV that was never switched on: the RAM holds no magic number.  What   *)
(* the other words hold is never used before they are written.             *)
RamInit ==
  /\ ram = [i \in 0 .. BufLen - 1 |-> "nul"]
  /\ magic = "other" /\ info = NoIndices /\ file = <<>>
  /\ ramwrite_start = FALSE /\ ram_clear_flush = FALSE
  /\ drambuf = NoIndices
  /\ writer = "idle" /\ stage = "off" /\ flush_text = <<>>
  /\ cur = "none" /\ rec = <<>> /\ torn = FALSE /\ switchedOff = FALSE

-----------------------------------------------------------------------------
(* dlogbuf_write(c): writeb(c, ram_char_buf + DRAM_INDEX(drambuf_end)).    *)
RamPut(c) ==
  /\ stage # "off" /\ writer = "idle"
  /\ ramwrite_start
  /\ ram' = [ram EXCEPT ![DRAM_INDEX(drambuf.end)] = c]
  /\ cur' = c
  /\ writer' = "advance"
  /\ UNCHANGED <<magic, info, file, ramwrite_start, ram_clear_flush, drambuf,
                 stage, flush_text, rec, torn, switchedOff>>

(* The indices after one more character. *)
Advanced(d) ==
  LET end == Int32(d.end + 1) IN
  [start |-> IF Int32(end - d.start) > BufLen THEN Int32(end - BufLen) ELSE d.start,
   end |-> end,
   chars |-> IF d.chars < BufLen THEN d.chars + 1 ELSE d.chars]

Advance ==
  /\ writer = "advance"
  /\ drambuf' = Advanced(drambuf)
  /\ writer' = "start"
  /\ UNCHANGED <<ramArea, ramwrite_start, ram_clear_flush, stage, flush_text, ghosts>>

(* write_ram_info(): three writel(), one for each word. *)
WriteInfo(at, word, next) ==
  /\ writer = at
  /\ info' = [info EXCEPT ![word] = drambuf[word]]
  /\ writer' = next
  /\ IF next = "idle"
     THEN /\ rec' = Last(Append(rec, cur))
          /\ cur' = "none"
     ELSE UNCHANGED <<rec, cur>>
  /\ UNCHANGED <<ram, magic, file, ramwrite_start, ram_clear_flush, drambuf,
                 stage, flush_text, torn, switchedOff>>

(* Mutant: the end is written before the start. *)
WriteRamInfoEndFirst ==
  \/ WriteInfo("start", "end", "end") \/ WriteInfo("end", "start", "chars")
  \/ WriteInfo("chars", "chars", "idle")

WriteRamInfo ==
  \/ WriteInfo("start", "start", "end") \/ WriteInfo("end", "end", "chars")
  \/ WriteInfo("chars", "chars", "idle")

-----------------------------------------------------------------------------
(* Mutant: a valid area is recorded over at once. *)
RambufInitRecord ==
  /\ stage = "init"
  /\ ram_clear_flush' = (magic = "0xbabe")
  /\ ramwrite_start' = TRUE
  /\ stage' = IF magic = "0xbabe" THEN "wait" ELSE "initZero"
  /\ switchedOff' = FALSE
  /\ UNCHANGED <<ramArea, drambuf, writer, flush_text, cur, rec, torn>>

(* rambuf_init(), first thing in the daemon: an area with the magic number *)
(* is to be saved; otherwise recording starts at once.                     *)
RambufInit ==
  /\ stage = "init"
  /\ IF magic = "0xbabe"
     THEN /\ ram_clear_flush' = TRUE
          /\ stage' = "wait"
          /\ UNCHANGED <<ramwrite_start, cur, rec, torn>>
     ELSE /\ ramwrite_start' = TRUE
          /\ rec' = <<>> /\ cur' = "none" /\ torn' = FALSE
          /\ stage' = "initZero"
          /\ UNCHANGED ram_clear_flush
  /\ switchedOff' = FALSE
  /\ UNCHANGED <<ramArea, drambuf, writer, flush_text>>

(* drambuf_start = drambuf_end = drambuf_chars = 0, here and in            *)
(* ram_flush(): after ramwrite_start = 1, so characters may have been put. *)
ZeroIndices(at, next) ==
  /\ stage = at /\ stage' = next
  /\ drambuf' = NoIndices
  /\ rec' = <<>>
  /\ torn' = (writer # "idle")
  /\ UNCHANGED <<ramArea, ramwrite_start, ram_clear_flush, writer, flush_text, cur,
                 switchedOff>>

InitZero == ZeroIndices("initZero", "initMagic")
FlushZero == ZeroIndices("zero", "done")

WriteMagic ==
  /\ stage = "initMagic"
  /\ magic' = "0xbabe"
  /\ stage' = "wait"
  /\ UNCHANGED <<ram, info, file, ramwrite_start, ram_clear_flush, drambuf, writer,
                 flush_text, ghosts>>

(* The wait_event_interruptible_timeout() of 15 seconds ends, and the loop *)
(* looks at ram_clear_flush; later rounds find it 0.                       *)
FirstRound ==
  /\ stage = "wait"
  /\ stage' = IF ram_clear_flush THEN "open" ELSE "run"
  /\ UNCHANGED <<ramArea, ramwrite_start, ram_clear_flush, drambuf, writer,
                 flush_text, ghosts>>

(* ram_flush(): filp_open() fails, or truncates the file. *)
OpenFails ==
  /\ stage = "open"
  /\ stage' = "failed"
  /\ UNCHANGED <<ramArea, ramwrite_start, ram_clear_flush, drambuf, writer,
                 flush_text, ghosts>>

Open ==
  /\ stage = "open"
  /\ file' = <<>>
  /\ stage' = "copy"
  /\ UNCHANGED <<ram, magic, info, ramwrite_start, ram_clear_flush, drambuf, writer,
                 flush_text, ghosts>>

(* The indices have wrapped, or the buffer is full. *)
RamWrapped == DRAM_INDEX(info.start) >= DRAM_INDEX(info.end)

(* start + len overflows, so that the loop that copies the first part does *)
(* nothing (and flush_text keeps as many zeros at its end).                *)
Overflows == RamWrapped /\ info.start >= Half - BufLen

(* What the loops over ram_char_buf read. *)
Text ==
  LET start == DRAM_INDEX(info.start)
      end == DRAM_INDEX(info.end)
      part(from, len) == [i \in 1 .. len |-> ram[from + i - 1]]
  IN  IF Overflows THEN part(0, end) \o [i \in 1 .. BufLen - start |-> "nul"]
      ELSE IF RamWrapped THEN part(start, BufLen - start) \o part(0, end)
      ELSE part(start, end - start)

RamCopy ==
  /\ stage = "copy"
  /\ flush_text' = Text
  /\ stage' = "write"
  /\ UNCHANGED <<ramArea, ramwrite_start, ram_clear_flush, drambuf, writer, ghosts>>

(* The beginning of text that a write() or a reset leaves in the file. *)
Prefixes(text) == {SubSeq(text, 1, n) : n \in 0 .. Len(text)}

(* write() and filp_close().  The flash may be full or fail: nobody looks  *)
(* at what write() returns, and ram_flush() goes on as if all were saved.  *)
RamWrite ==
  /\ stage = "write"
  /\ file' \in Prefixes(flush_text)
  /\ stage' = "resume"
  /\ UNCHANGED <<ram, magic, info, ramwrite_start, ram_clear_flush, drambuf, writer,
                 flush_text, ghosts>>

(* Mutant: recording is not switched on again. *)
ResumeNot ==
  /\ stage = "resume"
  /\ stage' = "zero"
  /\ UNCHANGED <<ramArea, ramwrite_start, ram_clear_flush, drambuf, writer, flush_text,
                 ghosts>>

(* ramwrite_start = 1 *)
Resume ==
  /\ stage = "resume"
  /\ ramwrite_start' = TRUE
  /\ rec' = <<>> /\ cur' = "none" /\ torn' = FALSE
  /\ stage' = "zero"
  /\ UNCHANGED <<ramArea, ram_clear_flush, drambuf, writer, flush_text, switchedOff>>

(* ram_clear_flush = 0 *)
FlushDone ==
  /\ stage \in {"done", "failed"}
  /\ ram_clear_flush' = FALSE
  /\ stage' = "run"
  /\ UNCHANGED <<ramArea, ramwrite_start, drambuf, writer, flush_text, ghosts>>

-----------------------------------------------------------------------------
Up == stage # "off"

(* rambuf_init() has not returned. *)
Starting == stage \in {"init", "initZero", "initMagic"}

(* Mutant: the magic number stays at a power off. *)
PowerOffKeepMagic ==
  /\ Up
  /\ switchedOff' = (switchedOff \/ ~Starting)
  /\ UNCHANGED <<ramArea, kernel, cur, rec, torn>>

(* do_dtvlog(5, NULL, 1): the application wrote the power off command to   *)
(* the serial line.  The TV goes off some time later.  The code does not   *)
(* ask how far the daemon is: rambuf_init() may yet write the magic number *)
(* over what this call wrote.  (Before its ioremap() the call would write  *)
(* through a null pointer and crash, which is a Reset.)                    *)
PowerOff ==
  /\ Up
  /\ magic' = "other"
  /\ switchedOff' = (switchedOff \/ ~Starting)
  /\ UNCHANGED <<ram, info, file, kernel, cur, rec, torn>>

(* The TV crashes, is reset or loses power.  ram_flush() does not sync the *)
(* file, so that the end of it may not have reached the flash.  Without    *)
(* the magic number nothing is promised about the recording.               *)
Reset ==
  /\ Up
  /\ file' \in Prefixes(file)
  /\ stage' = "off" /\ writer' = "idle"
  /\ ramwrite_start' = FALSE /\ ram_clear_flush' = FALSE
  /\ drambuf' = NoIndices
  /\ flush_text' = <<>>
  /\ rec' = IF magic = "0xbabe" THEN rec ELSE <<>>
  /\ UNCHANGED <<ram, magic, info, cur, torn, switchedOff>>

Boot ==
  /\ ~Up
  /\ stage' = "init"
  /\ UNCHANGED <<ramArea, ramwrite_start, ram_clear_flush, drambuf, writer, flush_text,
                 ghosts>>

Record == (\E c \in Chars : RamPut(c)) \/ Advance \/ WriteRamInfo

DaemonStep ==
  \/ RambufInit \/ InitZero \/ WriteMagic \/ FirstRound
  \/ OpenFails \/ Open \/ RamCopy \/ RamWrite \/ Resume \/ FlushZero \/ FlushDone

RamNext == Record \/ DaemonStep \/ PowerOff \/ Reset \/ Boot

RamSpec == RamInit /\ [][RamNext]_ramVars

(* The daemon thread runs. *)
RamFairSpec == RamSpec /\ WF_ramVars(DaemonStep)

-----------------------------------------------------------------------------
(* Properties. *)

(* text is the recording; if a character was being put, it is the last     *)
(* BufLen - 1 characters of the recording (or all, if fewer), with at most *)
(* one character before them and that character behind them.               *)
Keeps(text) ==
  IF cur = "none" THEN text = rec
  ELSE LET k == IF Len(rec) < BufLen THEN Len(rec) ELSE BufLen - 1
       IN \E pre, post \in 0 .. 1 :
            /\ Len(text) = pre + k + post
            /\ SubSeq(text, pre + 1, pre + k) = SubSeq(rec, Len(rec) - k + 1, Len(rec))
            /\ post = 1 => text[Len(text)] = cur

(* At every instant after its first character, the RAM area holds what a   *)
(* crash must leave: the last BufLen characters printed, less at most one, *)
(* although the character and the words of write_ram_info() are separate   *)
(* writes.  It stays so through later boots, crashes of those boots within *)
(* their first 15 seconds and failures to open the file, until the         *)
(* recording has been saved.  (Not while drambuf_start is in the last      *)
(* BufLen values below 2^31, where Text loses a part.)                     *)
CrashKeepsLog ==
  RamTypeOK /\ (rec # <<>> /\ ~torn /\ ~Overflows => Keeps(Text))

(* When ram_flush() allows the area to be recorded over, emeg_log.txt has  *)
(* the beginning of what the area still holds, and the recording of the    *)
(* boot that crashed if write() wrote as many characters as the area has.  *)
(* Nothing better holds: after a short or failed write(), or a reset       *)
(* before the file has reached the flash, the rest of that recording is in *)
(* neither place, although the code says "file written to flash".          *)
SavedBeforeReuse ==
  stage = "resume" /\ rec # <<>> /\ ~torn /\ ~Overflows =>
    file \in Prefixes(Text) /\ (Len(file) = Len(Text) => Keeps(file))

(* After a regular power off no emergency log is made: the next            *)
(* rambuf_init() does not set ram_clear_flush.  Nothing between a power    *)
(* off command that came after rambuf_init() and that boot brings the      *)
(* magic number back.  (One that comes before line 274 is undone by it.)   *)
NoLogAfterPowerOff == [][stage = "init" /\ switchedOff => ~ram_clear_flush']_ramVars

(* A boot that follows a crash makes the emergency log and goes on to      *)
(* record its own messages, unless the file cannot be opened or the TV     *)
(* goes down again.                                                        *)
RecordingResumes == stage = "init" ~> (~Up \/ ramwrite_start \/ stage = "failed")

=============================================================================
