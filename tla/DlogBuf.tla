------------------------------ MODULE DlogBuf ------------------------------
(***************************************************************************)
(* The ring buffer of kernel/dtvlogd.c: dlogbuf_write(), which printk and  *)
(* tty writes call for every character without a lock, and the copying     *)
(* part of usblog_flush(), which only the daemon runs (under dlogbuf_lock, *)
(* which nobody else takes).                                               *)
(*                                                                         *)
(* A load and the store that depends on it are two actions, and reg[w] is  *)
(* the register in between.                                                *)
(*                                                                         *)
(* Calls overlap: printk() serialises its own callers with logbuf_lock,    *)
(* but not against tty writes or the daemon.  damaged says whether they    *)
(* have since the last flush that ran alone:                               *)
(*   no       no two calls overlapped                                      *)
(*   yes      some did                                                     *)
(*   healing  some did, and the daemon has so far been alone in its flush  *)
(***************************************************************************)
EXTENDS LogRing, FiniteSets

CONSTANT Writers   \* the contexts that print at the same time

VARIABLES dlog_buf, dlogbuf_start, dlogbuf_end, dlogged_chars,
          place,      \* where each writer is in dlogbuf_write()
          reg,        \* the register of each writer
          flusher,    \* where the daemon is in usblog_flush()
          myend,      \* the daemon's register: the dlogbuf_end it last read
          flush_buf,  \* the characters copied so far, of length len
          unsaved,    \* auxiliary: the last characters since the last flush
          due,        \* auxiliary: unsaved when the flush copied the buffer
          damaged     \* auxiliary, see above

ring == <<dlog_buf, dlogbuf_start, dlogbuf_end, dlogged_chars>>
flush == <<flusher, myend, flush_buf, due>>
dlogVars == <<ring, place, reg, flush, unsaved, damaged>>

DLOG_INDEX(i) == i % BufLen   \* i & DLOG_BUF_MASK
WriterPlaces == {"idle", "put", "load", "end", "compare", "start", "chars", "count"}
FlusherPlaces == {"idle", "copy", "wrap", "start", "chars", "write"}

DlogTypeOK ==
  /\ dlog_buf \in [0 .. BufLen - 1 -> Chars \cup {"nul"}]
  /\ dlogbuf_start \in Ints /\ dlogbuf_end \in Ints
  /\ dlogged_chars \in 0 .. BufLen
  /\ place \in [Writers -> WriterPlaces] /\ reg \in [Writers -> Ints]
  /\ flusher \in FlusherPlaces /\ myend \in Ints
  /\ \A s \in {flush_buf, unsaved, due} :
       \A i \in 1 .. Len(s) : s[i] \in Chars \cup {"nul"}
  /\ damaged \in {"no", "yes", "healing"}

DlogInit ==
  /\ dlog_buf = [i \in 0 .. BufLen - 1 |-> "nul"]
  /\ dlogbuf_start = 0 /\ dlogbuf_end = 0 /\ dlogged_chars = 0
  /\ place = [w \in Writers |-> "idle"] /\ reg = [w \in Writers |-> 0]
  /\ flusher = "idle" /\ myend = 0
  /\ flush_buf = <<>> /\ unsaved = <<>> /\ due = <<>>
  /\ damaged = "no"

WriterTo(w, next) == place' = [place EXCEPT ![w] = next]

(* Nobody is at work on the buffer. *)
Quiet == flusher \in {"idle", "write"} /\ \A w \in Writers : place[w] = "idle"

-----------------------------------------------------------------------------
(* dlogbuf_write(c): DLOG_BUF(dlogbuf_end) ... *)
LoadIndex(w) ==
  /\ place[w] = "idle"
  /\ reg' = [reg EXCEPT ![w] = dlogbuf_end]
  /\ damaged' = IF Quiet THEN damaged ELSE "yes"
  /\ WriterTo(w, "put")
  /\ UNCHANGED <<ring, flush, unsaved>>

(* ... = c. *)
DlogPut(w, c) ==
  /\ place[w] = "put"
  /\ dlog_buf' = [dlog_buf EXCEPT ![DLOG_INDEX(reg[w])] = c]
  /\ unsaved' = Last(Append(unsaved, c))
  /\ WriterTo(w, "load")
  /\ UNCHANGED <<dlogbuf_start, dlogbuf_end, dlogged_chars, reg, flush, damaged>>

(* dlogbuf_end is read again, after the stores into the RAM area, ... *)
LoadEnd(w) ==
  /\ place[w] = "load"
  /\ reg' = [reg EXCEPT ![w] = dlogbuf_end]
  /\ WriterTo(w, "end")
  /\ UNCHANGED <<ring, flush, unsaved, damaged>>

(* ... for dlogbuf_end++. *)
IncEnd(w) ==
  /\ place[w] = "end"
  /\ dlogbuf_end' = Int32(reg[w] + 1)
  /\ reg' = [reg EXCEPT ![w] = Int32(reg[w] + 1)]
  /\ WriterTo(w, "compare")
  /\ UNCHANGED <<dlog_buf, dlogbuf_start, dlogged_chars, flush, unsaved, damaged>>

(* Mutant: the buffer is taken to be full one character too late. *)
CompareLate(w) ==
  /\ place[w] = "compare"
  /\ WriterTo(w, IF Int32(reg[w] - dlogbuf_start) > BufLen + 1 THEN "start" ELSE "chars")
  /\ UNCHANGED <<ring, reg, flush, unsaved, damaged>>

(* if (dlogbuf_end - dlogbuf_start > dlog_buf_len) ... *)
Compare(w) ==
  /\ place[w] = "compare"
  /\ WriterTo(w, IF Int32(reg[w] - dlogbuf_start) > BufLen THEN "start" ELSE "chars")
  /\ UNCHANGED <<ring, reg, flush, unsaved, damaged>>

(* ... dlogbuf_start = dlogbuf_end - dlog_buf_len. *)
SetStart(w) ==
  /\ place[w] = "start"
  /\ dlogbuf_start' = Int32(reg[w] - BufLen)
  /\ WriterTo(w, "chars")
  /\ UNCHANGED <<dlog_buf, dlogbuf_end, dlogged_chars, reg, flush, unsaved, damaged>>

(* if (dlogged_chars < dlog_buf_len) ... *)
LoadChars(w) ==
  /\ place[w] = "chars"
  /\ IF dlogged_chars < BufLen
     THEN reg' = [reg EXCEPT ![w] = dlogged_chars] /\ WriterTo(w, "count")
     ELSE reg' = [reg EXCEPT ![w] = 0] /\ WriterTo(w, "idle")
  /\ UNCHANGED <<ring, flush, unsaved, damaged>>

(* ... dlogged_chars++. *)
Count(w) ==
  /\ place[w] = "count"
  /\ dlogged_chars' = reg[w] + 1
  /\ reg' = [reg EXCEPT ![w] = 0]
  /\ WriterTo(w, "idle")
  /\ UNCHANGED <<dlog_buf, dlogbuf_start, dlogbuf_end, flush, unsaved, damaged>>

-----------------------------------------------------------------------------
(* usblog_flush(): return if (dlogged_chars == 0). *)
Flush ==
  /\ flusher = "idle"
  /\ dlogged_chars # 0
  /\ damaged' = IF ~Quiet THEN "yes" ELSE IF damaged = "yes" THEN "healing" ELSE damaged
  /\ flusher' = "copy"
  /\ UNCHANGED <<ring, place, reg, myend, flush_buf, due, unsaved>>

(* The buffer's indices have wrapped, or it is full. *)
DlogWrapped == DLOG_INDEX(dlogbuf_start) >= DLOG_INDEX(dlogbuf_end)

(* Mutant: a full buffer is taken to be an empty one. *)
CopyNotFull ==
  /\ flusher = "copy"
  /\ LET start == DLOG_INDEX(dlogbuf_start)
         len == IF start > DLOG_INDEX(dlogbuf_end) THEN BufLen - start
                ELSE DLOG_INDEX(dlogbuf_end) - start
     IN  flush_buf' = [i \in 1 .. len |-> dlog_buf[start + i - 1]]
  /\ flusher' = "wrap"
  /\ UNCHANGED <<ring, place, reg, myend, due, unsaved, damaged>>

(* The first memcpy(): up to dlogbuf_end or the end of the array. *)
CopyFirst ==
  /\ flusher = "copy"
  /\ LET start == DLOG_INDEX(dlogbuf_start)
         len == IF DlogWrapped THEN BufLen - start
                ELSE DLOG_INDEX(dlogbuf_end) - start
     IN  flush_buf' = [i \in 1 .. len |-> dlog_buf[start + i - 1]]
  /\ flusher' = "wrap"
  /\ UNCHANGED <<ring, place, reg, myend, due, unsaved, damaged>>

(* The second memcpy(): the part at the beginning of the array. *)
CopyWrapped ==
  /\ flusher = "wrap"
  /\ flush_buf' = IF DlogWrapped
                  THEN flush_buf \o [i \in 1 .. DLOG_INDEX(dlogbuf_end) |-> dlog_buf[i - 1]]
                  ELSE flush_buf
  /\ myend' = dlogbuf_end
  /\ due' = unsaved /\ unsaved' = <<>>
  /\ flusher' = "start"
  /\ UNCHANGED <<ring, place, reg, damaged>>

(* dlogbuf_start = dlogbuf_end, ... *)
Empty ==
  /\ flusher = "start"
  /\ dlogbuf_start' = myend
  /\ myend' = 0
  /\ flusher' = "chars"
  /\ UNCHANGED <<dlog_buf, dlogbuf_end, dlogged_chars, place, reg, flush_buf,
                 due, unsaved, damaged>>

(* ... dlogged_chars = 0. *)
ClearChars ==
  /\ flusher = "chars"
  /\ dlogged_chars' = 0
  /\ flusher' = "write"
  /\ UNCHANGED <<dlog_buf, dlogbuf_start, dlogbuf_end, place, reg, myend, flush_buf,
                 due, unsaved, damaged>>

(* usblog_write(flush_buf, len) *)
FlushWrite ==
  /\ flusher = "write"
  /\ flush_buf' = <<>> /\ due' = <<>>
  /\ damaged' = IF damaged = "healing" THEN "no" ELSE damaged
  /\ flusher' = "idle"
  /\ UNCHANGED <<ring, place, reg, myend, unsaved>>

-----------------------------------------------------------------------------
DlogNext ==
  \/ \E w \in Writers :
       \/ LoadIndex(w) \/ (\E c \in Chars : DlogPut(w, c)) \/ LoadEnd(w)
       \/ IncEnd(w) \/ Compare(w) \/ SetStart(w) \/ LoadChars(w) \/ Count(w)
  \/ Flush \/ CopyFirst \/ CopyWrapped \/ Empty \/ ClearChars \/ FlushWrite

DlogSpec == DlogInit /\ [][DlogNext]_dlogVars

-----------------------------------------------------------------------------
(* Properties. *)

(* Between calls, dlogged_chars is the distance of the indices, and what   *)
(* lies between them is the last BufLen characters that were printed and   *)
(* not saved, in order: across wrapping of the array, wrapping of the int  *)
(* indices and overwriting of the oldest characters.  What overlapping     *)
(* calls do to the indices lasts only until a flush has run alone.         *)
RingExact ==
  /\ DlogTypeOK
  /\ Quiet /\ damaged = "no" =>
       /\ dlogged_chars = Int32(dlogbuf_end - dlogbuf_start)
       /\ unsaved = [i \in 1 .. dlogged_chars |->
                       dlog_buf[DLOG_INDEX(Int32(dlogbuf_start + i - 1))]]

(* What usblog_flush() writes to the USB file is exactly what was printed  *)
(* since the last flush (or the last BufLen characters of it): nothing is  *)
(* written twice and nothing is missing, with a full or a wrapped buffer,  *)
(* once the buffer is past the damage of overlapping calls.                *)
FlushExact == flusher = "write" /\ damaged = "no" => flush_buf = due

(* "if corruption occurs, it would be a few characters only" (comment in   *)
(* dlogbuf_write): a flush that races the writers writes at most one       *)
(* character per writer more than were printed since the last flush.       *)
FewCharacters ==
  flusher = "write" => Len(flush_buf) <= Len(due) + Cardinality(Writers)

=============================================================================
