----------------------------- MODULE LibcRuntime ----------------------------
(*****************************************************************************)
(* The parts of the C library that keep state or call the kernel: streams, the*)
(* allocator, system calls with errno, semaphores, spin locks and threads.   *)
(*****************************************************************************)
EXTENDS Integers, Sequences, SequencesExt, FiniteSets, TLC

-----------------------------------------------------------------------------
(***************************************************************************)
(* The FILE streams of userspace/hadron-libc/core/src/stdio/mod.rs and the exit    *)
(* of process.rs. One stream over one file; the loops of fwrite and fread take a   *)
(* step per iteration. A write of the kernel may be short or fail, a read may be   *)
(* short. lfExpect and lfAt are the file and the position the program has in mind. *)
(***************************************************************************)
CONSTANTS
    LfKinds,        \* streams: "stdout", "r", "w", "r+"
    LfContent,      \* what the file holds at first
    LfTexts,        \* what the program writes
    LfCounts,       \* how many bytes it asks for
    BufSize,        \* BUF_SIZE
    LfOps,          \* bound: calls of the program
    LfCloses,       \* the program closes what it opened before it exits
    LfFaults        \* writes may fail

VARIABLES
    lfKind,
    lfS,        \* the FILE: [open, mode, flags, buf, pos, len]
    lfFile, lfOff,      \* the file and the kernel's offset
    lfCall,     \* the call in progress: [op, data, want, line]
    lfGot,      \* the bytes the last fread or fgets has stored
    lfExpect, lfAt,     \* the file and the position as the program sees them
    lfLast,     \* "read" or "write" since the last fseek
    lfFailed,   \* a write has failed
    lfLeft

lfVars == <<lfKind, lfS, lfFile, lfOff, lfCall, lfGot, lfExpect, lfAt, lfLast, lfFailed, lfLeft>>

Overwrite(file, off, data) ==
    [i \in 1 .. (IF off + Len(data) > Len(file) THEN off + Len(data) ELSE Len(file)) |->
        IF i \in off + 1 .. off + Len(data) THEN data[i - off] ELSE IF i <= Len(file) THEN file[i] ELSE "0"]

Idle == [op |-> "none", data |-> <<>>, want |-> 0, line |-> FALSE]

\* FILE::new, and the three static streams (stdin and stderr are unbuffered).
NewFile(mode, flags) ==
    [open |-> TRUE, mode |-> mode, flags |-> flags, buf |-> [i \in 1..BufSize |-> "0"], pos |-> 0, len |-> 0]

\* fopen: the flags of the mode string; '+' gives both.
Fopen(kind) ==
    CASE kind = "r" -> NewFile("full", {"read", "owned"})
      [] kind = "w" -> NewFile("full", {"write", "owned"})
      [] kind = "r+" -> NewFile("full", {"read", "write", "owned"})
      [] kind = "stdout" -> NewFile("line", {"write"})
      [] kind = "stderr" -> NewFile("none", {"write"})

LfInit ==
    /\ lfKind \in LfKinds
    /\ lfS = Fopen(lfKind)
    /\ lfFile \in (IF lfKind \in {"r", "r+"} THEN LfContent ELSE {<<>>})
    /\ lfOff = 0 /\ lfCall = Idle /\ lfGot = <<>>
    /\ lfExpect = lfFile /\ lfAt = 0 /\ lfLast = "none" /\ lfFailed = FALSE /\ lfLeft = LfOps

\* The loop over sys_write: how many bytes of data reach the file before it ends.
Reach(data) == IF LfFaults THEN 0 .. Len(data) ELSE {Len(data)}

Reached(data, k) ==
    /\ lfFile' = Overwrite(lfFile, lfOff, SubSeq(data, 1, k))
    /\ lfOff' = lfOff + k
    /\ lfFailed' = (lfFailed \/ k < Len(data))

\* What fflush of the stream in state s writes.
Pending(s) == IF "write" \in s.flags THEN SubSeq(s.buf, 1, s.pos) ELSE <<>>

\* The stream after k of its bytes were written: a flush that fails leaves
\* buf_pos as it was; a stream that is not for writing is left alone.
Flushed(s, k) ==
    IF k < Len(Pending(s)) THEN [s EXCEPT !.flags = @ \cup {"error"}]
    ELSE IF "write" \in s.flags THEN [s EXCEPT !.pos = 0] ELSE s

Fflush(s) == \E k \in Reach(Pending(s)) : Reached(Pending(s), k) /\ lfS' = Flushed(s, k)

Call(c) ==
    /\ lfCall.op = "none" /\ lfS.open /\ lfLeft > 0 /\ lfLeft' = lfLeft - 1
    /\ lfCall' = c

\* fwrite, fputs and fputc: the arguments and the FILE_WRITE flag. A program
\* that has read seeks before it writes.
Fwrite(data) ==
    /\ Call([Idle EXCEPT !.op = "write", !.data = data]) /\ lfLast # "read"
    /\ IF "write" \in lfS.flags
       THEN /\ lfExpect' = Overwrite(lfExpect, lfAt, data) /\ lfAt' = lfAt + Len(data)
            /\ lfLast' = "write" /\ UNCHANGED lfS
       ELSE lfS' = [lfS EXCEPT !.flags = @ \cup {"error"}] /\ UNCHANGED <<lfExpect, lfAt, lfLast>>
    /\ UNCHANGED <<lfKind, lfFile, lfOff, lfGot, lfFailed>>

\* puts: the string, then a newline unless the first fwrite fell short.
Puts(data) ==
    /\ lfKind = "stdout"
    /\ Call([Idle EXCEPT !.op = "puts", !.data = data])
    /\ lfExpect' = Overwrite(lfExpect, lfAt, data) /\ lfAt' = lfAt + Len(data)
    /\ UNCHANGED <<lfKind, lfS, lfFile, lfOff, lfGot, lfLast, lfFailed>>

PutsNewline ==
    /\ lfCall.op = "puts" /\ lfCall.data = <<>>
    /\ lfCall' = [lfCall EXCEPT !.op = "write", !.data = <<"n">>]
    /\ lfExpect' = Overwrite(lfExpect, lfAt, <<"n">>) /\ lfAt' = lfAt + 1
    /\ UNCHANGED <<lfKind, lfS, lfFile, lfOff, lfGot, lfLast, lfFailed, lfLeft>>

Writing == lfCall.op \in {"write", "puts"} /\ lfCall.data # <<>> /\ "write" \in lfS.flags

\* What is left of the call when the flush has failed or not.
AfterFlush(rest) == lfCall' = IF lfS'.pos # 0 THEN Idle ELSE [lfCall EXCEPT !.data = rest]

Unbuffered ==
    /\ Writing /\ lfS.mode = "none"
    /\ \E k \in Reach(lfCall.data) :
          /\ Reached(lfCall.data, k)
          /\ lfS' = IF k = Len(lfCall.data) THEN lfS ELSE [lfS EXCEPT !.flags = @ \cup {"error"}]
          /\ lfCall' = IF k = Len(lfCall.data) THEN [lfCall EXCEPT !.data = <<>>] ELSE Idle
    /\ UNCHANGED <<lfKind, lfGot, lfExpect, lfAt, lfLast, lfLeft>>

LineFlush(byte, pos) == byte = "n" \/ pos >= BufSize

\* A byte into the buffer; a newline or a full buffer flushes it. A buffer that
\* is full already (its flush has failed) is written past its end: a panic.
LineBuffered ==
    /\ Writing /\ lfS.mode = "line"
    /\ IF lfS.pos >= BufSize
       THEN lfCall' = [lfCall EXCEPT !.op = "panic"] /\ UNCHANGED <<lfS, lfFile, lfOff, lfFailed>>
       ELSE LET s == [lfS EXCEPT !.buf[lfS.pos + 1] = Head(lfCall.data), !.pos = @ + 1]
            IN  IF LineFlush(Head(lfCall.data), s.pos)
                THEN Fflush(s) /\ AfterFlush(Tail(lfCall.data))
                ELSE /\ lfS' = s /\ lfCall' = [lfCall EXCEPT !.data = Tail(@)]
                     /\ UNCHANGED <<lfFile, lfOff, lfFailed>>
    /\ UNCHANGED <<lfKind, lfGot, lfExpect, lfAt, lfLast, lfLeft>>

FullyBuffered ==
    /\ Writing /\ lfS.mode = "full"
    /\ LET chunk == IF Len(lfCall.data) < BufSize - lfS.pos THEN Len(lfCall.data) ELSE BufSize - lfS.pos
           s == [lfS EXCEPT !.buf = Overwrite(lfS.buf, lfS.pos, SubSeq(lfCall.data, 1, chunk)), !.pos = @ + chunk]
           rest == SubSeq(lfCall.data, chunk + 1, Len(lfCall.data))
       IN  IF s.pos >= BufSize
           THEN Fflush(s) /\ AfterFlush(rest)
           ELSE lfS' = s /\ lfCall' = [lfCall EXCEPT !.data = rest] /\ UNCHANGED <<lfFile, lfOff, lfFailed>>
    /\ UNCHANGED <<lfKind, lfGot, lfExpect, lfAt, lfLast, lfLeft>>

\* fread of n bytes; fgets of a line of at most n bytes is freads of one byte.
Fread(n, line) ==
    /\ Call([Idle EXCEPT !.op = "read", !.want = n, !.line = line]) /\ lfLast # "write"
    /\ lfGot' = <<>>
    /\ lfS' = IF "read" \in lfS.flags THEN lfS ELSE [lfS EXCEPT !.flags = @ \cup {"error"}]
    /\ lfLast' = IF "read" \in lfS.flags THEN "read" ELSE lfLast
    /\ UNCHANGED <<lfKind, lfFile, lfOff, lfExpect, lfAt, lfFailed>>

Reading == lfCall.op = "read" /\ lfCall.want > 0 /\ "read" \in lfS.flags

TakeBuffered ==
    /\ Reading /\ lfS.pos < lfS.len
    /\ LET want == IF lfCall.line THEN 1 ELSE lfCall.want
           chunk == IF want < lfS.len - lfS.pos THEN want ELSE lfS.len - lfS.pos
           bytes == SubSeq(lfS.buf, lfS.pos + 1, lfS.pos + chunk)
       IN  /\ lfGot' = lfGot \o bytes /\ lfAt' = lfAt + chunk
           /\ lfS' = [lfS EXCEPT !.pos = @ + chunk]
           /\ lfCall' = [lfCall EXCEPT !.want = IF lfCall.line /\ bytes[1] = "n" THEN 0 ELSE @ - chunk]
    /\ UNCHANGED <<lfKind, lfFile, lfOff, lfExpect, lfLast, lfFailed, lfLeft>>

\* (mutant) The buffer is filled behind what it held.
RefillKeepsPos(n) == [lfS EXCEPT !.len = n, !.buf = Overwrite(@, 0, SubSeq(lfFile, lfOff + 1, lfOff + n))]

Refill(n) == [lfS EXCEPT !.pos = 0, !.len = n, !.buf = Overwrite(@, 0, SubSeq(lfFile, lfOff + 1, lfOff + n))]

ReadFile ==
    /\ Reading /\ lfS.pos >= lfS.len
    /\ IF lfOff >= Len(lfFile)
       THEN lfS' = [lfS EXCEPT !.flags = @ \cup {"eof"}] /\ lfCall' = Idle /\ UNCHANGED lfOff
       ELSE \E n \in 1 .. (IF BufSize < Len(lfFile) - lfOff THEN BufSize ELSE Len(lfFile) - lfOff) :
               lfS' = Refill(n) /\ lfOff' = lfOff + n /\ UNCHANGED lfCall
    /\ UNCHANGED <<lfKind, lfFile, lfGot, lfExpect, lfAt, lfLast, lfFailed, lfLeft>>

Done == lfCall.op \in {"write", "read"} /\ ~Writing /\ ~Reading

Return ==
    /\ Done /\ lfCall' = Idle
    /\ UNCHANGED <<lfKind, lfS, lfFile, lfOff, lfGot, lfExpect, lfAt, lfLast, lfFailed, lfLeft>>

\* The program's own fflush.
FlushCall ==
    /\ Call(Idle) /\ Fflush(lfS)
    /\ UNCHANGED <<lfKind, lfGot, lfExpect, lfAt, lfLast>>

\* fseek from the start (rewind: to 0, and clearerr): flush, forget the buffer,
\* lseek.
Fseek(off) ==
    /\ Call(Idle) /\ off <= Len(lfExpect)
    /\ \E k \in Reach(Pending(lfS)) :
          /\ lfFile' = Overwrite(lfFile, lfOff, SubSeq(Pending(lfS), 1, k))
          /\ lfFailed' = (lfFailed \/ k < Len(Pending(lfS)))
          /\ lfS' = [Flushed(lfS, k) EXCEPT !.pos = 0, !.len = 0, !.flags = @ \ {"eof"}]
    /\ lfOff' = off /\ lfAt' = off /\ lfLast' = "none"
    /\ UNCHANGED <<lfKind, lfGot, lfExpect>>

\* ftell
Ftell == lfOff - (IF "read" \in lfS.flags /\ lfS.len > lfS.pos THEN lfS.len - lfS.pos ELSE 0)

\* fclose: flush, close, free.
Fclose ==
    /\ Call(Idle) /\ "owned" \in lfS.flags
    /\ \E k \in Reach(Pending(lfS)) :
          Reached(Pending(lfS), k) /\ lfS' = [Flushed(lfS, k) EXCEPT !.open = FALSE]
    /\ UNCHANGED <<lfKind, lfGot, lfExpect, lfAt, lfLast>>

\* fflush(NULL) knows stdout and stderr.
FflushAll == IF "owned" \in lfS.flags THEN UNCHANGED <<lfS, lfFile, lfOff, lfFailed>> ELSE Fflush(lfS)

\* exit: the handlers, fflush(NULL), and the process is gone.
Exit ==
    /\ lfCall.op = "none"
    /\ LfCloses => ~lfS.open \/ "owned" \notin lfS.flags
    /\ FflushAll
    /\ lfCall' = [Idle EXCEPT !.op = "exited"]
    /\ UNCHANGED <<lfKind, lfGot, lfExpect, lfAt, lfLast, lfLeft>>

LfNext ==
    \/ \E t \in LfTexts : Fwrite(t) \/ Puts(t)
    \/ PutsNewline \/ Unbuffered \/ LineBuffered \/ FullyBuffered
    \/ \E n \in LfCounts, line \in BOOLEAN : Fread(n, line)
    \/ TakeBuffered \/ ReadFile \/ Return \/ FlushCall
    \/ \E off \in LfCounts : Fseek(off)
    \/ Fclose \/ Exit

LfSpec == LfInit /\ [][LfNext]_lfVars

-----------------------------------------------------------------------------
\* As long as no write has failed: the file with the bytes that are still in the
\* buffer is the file the program has in mind, and the next byte goes where the
\* program stands, between calls.
WrittenRight ==
    lfCall.op = "none" /\ lfS.open /\ ~lfFailed =>
        /\ Overwrite(lfFile, lfOff, Pending(lfS)) = lfExpect
        /\ "write" \in lfS.flags => lfOff + Len(Pending(lfS)) = lfAt

\* The bytes a read has stored are those before the position, whatever the
\* kernel's short reads were; ftell gives that position; fgets stops at the first
\* newline.
ReadRight ==
    lfCall.op = "none" /\ lfS.open /\ lfLast = "read" =>
        /\ lfGot = SubSeq(lfExpect, lfAt - Len(lfGot) + 1, lfAt)
        /\ Ftell = lfAt

LinesRight == lfCall.op = "read" /\ lfCall.line => \A i \in 1 .. Len(lfGot) - 1 : lfGot[i] # "n"

\* Once the process has exited nothing it wrote is missing from the file.
NothingLost == lfCall.op = "exited" /\ ~lfFailed => lfFile = lfExpect

\* No byte is stored behind the buffer unless a write has failed.
BufferHolds == lfCall.op = "panic" => lfFailed

-----------------------------------------------------------------------------
(***************************************************************************)
(* malloc, calloc, realloc and free of userspace/hadron-libc/core/src/alloc: a     *)
(* bump pointer over chunks from mmap, and a free list that is searched first fit   *)
(* and never splits or merges. Addresses and sizes are counted in units of         *)
(* MIN_ALIGN, which the header takes one of; a byte size is rounded up by Units.   *)
(***************************************************************************)
CONSTANTS
    LaSizes,        \* byte sizes the program asks for
    LaUnit,         \* MIN_ALIGN in bytes
    LaChunk,        \* CHUNK_SIZE in units
    LaPage,         \* 4096 bytes in units
    LaSpace,        \* bound: units the kernel can map
    LaCalls         \* bound: calls

VARIABLES
    laBump, laEnd,  \* bump, bump_end
    laFree,         \* free_list: block addresses, first first
    laSize,         \* address -> size in the header or the free node (without the header)
    laLive,         \* address of a block the program holds -> [bytes, stamp]
    laMem,          \* unit -> the stamp of the block that wrote it last
    laTop,          \* what the kernel has mapped
    laLeft

laVars == <<laBump, laEnd, laFree, laSize, laLive, laMem, laTop, laLeft>>

Units(bytes) == (bytes + LaUnit - 1) \div LaUnit
HeaderUnits == 1

LaInit ==
    /\ laBump = 0 /\ laEnd = 0 /\ laFree = <<>> /\ laSize = <<>> /\ laLive = <<>>
    /\ laMem = [u \in 1..LaSpace |-> 0] /\ laTop = 1 /\ laLeft = LaCalls

\* alloc_inner's total: the header and at least a free node.
Total(bytes) == HeaderUnits + Units(IF bytes < LaUnit THEN LaUnit ELSE bytes)

FirstFit(total) == {i \in DOMAIN laFree : laSize[laFree[i]] + HeaderUnits >= total
                        /\ \A j \in 1 .. i - 1 : laSize[laFree[j]] + HeaderUnits < total}

\* grow: a chunk, or as many pages as a large block needs. What was left of the
\* old chunk is given up.
GrowSize(total) ==
    IF total + 1 > LaChunk THEN ((total + 1 + LaPage - 1) \div LaPage) * LaPage ELSE LaChunk

Put(f, a, v) == [x \in DOMAIN f \cup {a} |-> IF x = a THEN v ELSE f[x]]
Drop(f, a) == [x \in DOMAIN f \ {a} |-> f[x]]

\* (mutant) A block from the free list gets the size that was asked for.
ReusedShrinks(a, total) == Put(laSize, a, total)

\* A block from the free list keeps its own size.
Reused(a, total) == laSize

\* A block cut off at the bump pointer.
Bumped(bump, end, top, total) ==
    [addr |-> bump, bump |-> bump + total, end |-> end, free |-> laFree, size |-> Put(laSize, bump, total - HeaderUnits), top |-> top]

\* alloc_inner: the first free block that is large enough, the rest of the
\* chunk, or a new chunk, if the kernel gives one. Address 0 is the null pointer.
Alloc(total, maps) ==
    IF FirstFit(total) # {}
    THEN LET i == CHOOSE i \in FirstFit(total) : TRUE
         IN  [addr |-> laFree[i], bump |-> laBump, end |-> laEnd, free |-> RemoveAt(laFree, i),
              size |-> Reused(laFree[i], total), top |-> laTop]
    ELSE IF laBump # 0 /\ laBump + total <= laEnd THEN Bumped(laBump, laEnd, laTop, total)
    ELSE IF maps /\ laTop + GrowSize(total) <= LaSpace + 1
    THEN Bumped(laTop, laTop + GrowSize(total), laTop + GrowSize(total), total)
    ELSE [addr |-> 0, bump |-> laBump, end |-> laEnd, free |-> laFree, size |-> laSize, top |-> laTop]

Filled(mem, a, n, stamp) == [u \in DOMAIN mem |-> IF u \in a + 1 .. a + n THEN stamp ELSE mem[u]]

Called == laLeft > 0 /\ laLeft' = laLeft - 1

\* malloc, and calloc (the program or calloc fills what was asked for).
Malloc(bytes, maps) ==
    /\ Called
    /\ LET r == Alloc(Total(bytes), maps)
       IN  IF bytes = 0 \/ r.addr = 0 THEN UNCHANGED <<laBump, laEnd, laFree, laSize, laLive, laMem, laTop>>
           ELSE /\ laBump' = r.bump /\ laEnd' = r.end /\ laFree' = r.free /\ laSize' = r.size /\ laTop' = r.top
                /\ laLive' = Put(laLive, r.addr, [bytes |-> bytes, stamp |-> laLeft])
                /\ laMem' = Filled(laMem, r.addr, Units(bytes), laLeft)

Free(a) ==
    /\ Called /\ a \in DOMAIN laLive
    /\ laFree' = <<a>> \o laFree
    /\ laLive' = Drop(laLive, a)
    /\ UNCHANGED <<laBump, laEnd, laSize, laMem, laTop>>

\* realloc leaves the block where it is when it is large enough.
Stays(a, bytes) == Units(bytes) <= laSize[a]

Copied(from, to) == [u \in DOMAIN laMem |-> IF u \in to + 1 .. to + laSize[from] THEN laMem[u - to + from] ELSE laMem[u]]

\* realloc to a size that is not 0 of a block that is there (0: free; no block:
\* malloc). When the kernel has no memory the old block stays as it is.
Realloc(a, bytes, maps) ==
    /\ Called /\ a \in DOMAIN laLive /\ bytes > 0
    /\ LET r == Alloc(Total(bytes), maps)
           stamp == laLive[a].stamp
       IN  \/ /\ Stays(a, bytes)
              /\ laLive' = [laLive EXCEPT ![a].bytes = bytes]
              /\ laMem' = Filled(laMem, a, Units(bytes), stamp)
              /\ UNCHANGED <<laBump, laEnd, laFree, laSize, laTop>>
           \/ /\ ~Stays(a, bytes) /\ r.addr = 0
              /\ UNCHANGED <<laBump, laEnd, laFree, laSize, laLive, laMem, laTop>>
           \/ /\ ~Stays(a, bytes) /\ r.addr # 0
              /\ laBump' = r.bump /\ laEnd' = r.end /\ laSize' = r.size /\ laTop' = r.top
              /\ laFree' = <<a>> \o r.free
              /\ laLive' = Put(Drop(laLive, a), r.addr, [bytes |-> laLive[a].bytes, stamp |-> stamp])
              /\ laMem' = Copied(a, r.addr)

LaNext ==
    \/ \E b \in LaSizes, m \in BOOLEAN : Malloc(b, m)
    \/ \E a \in DOMAIN laLive : Free(a) \/ \E b \in LaSizes, m \in BOOLEAN : Realloc(a, b, m)

LaSpec == LaInit /\ [][LaNext]_laVars

-----------------------------------------------------------------------------
Extent(a) == a .. a + laSize[a]
Blocks == DOMAIN laLive \cup ToSet(laFree)

\* No two blocks overlap, whether the program holds them or the free list does,
\* each header included; they lie in memory the kernel has mapped and below the
\* bump pointer of their chunk.
BlocksDisjoint ==
    /\ \A a, b \in Blocks : a # b => Extent(a) \cap Extent(b) = {}
    /\ \A a \in Blocks : Extent(a) \subseteq 1 .. laTop - 1 /\ Extent(a) \cap laBump .. laEnd - 1 = {}
    /\ IsInjective(laFree) /\ DOMAIN laLive \cap ToSet(laFree) = {}

\* What the program stored in a block it holds is still there, through every
\* other call and through the move of a realloc, and the block is as large as
\* was asked for.
ContentsKept ==
    \A a \in DOMAIN laLive :
        /\ Units(laLive[a].bytes) <= laSize[a]
        /\ \A u \in a + 1 .. a + Units(laLive[a].bytes) : laMem[u] = laLive[a].stamp

-----------------------------------------------------------------------------
(***************************************************************************)
(* The C functions of userspace/hadron-libc/core/src that are a system call with   *)
(* the errno convention (io.rs, process.rs, socket.rs, signal.rs, mman.rs, poll.rs,  *)
(* time.rs over sys.rs), and those that are more than one: stat, pipe, opendir.     *)
(* The kernel answers a call with any value or error; it keeps the set of open      *)
(* descriptors.                                                                   *)
(***************************************************************************)
CONSTANTS
    CcValues,       \* what the kernel may answer with, errors (negative) included
    CcFdLimit,      \* bound: descriptors
    CcCalls         \* bound: calls

VARIABLES
    ccErrno, ccRet,
    ccAnswer,   \* the kernel's last answer, <<>> when it was not asked
    ccName,     \* the last C function
    ccFds,      \* descriptors the process has open
    ccHeld,     \* of these, the ones the program was given or holds in a DIR
    ccLeft

ccVars == <<ccErrno, ccRet, ccAnswer, ccName, ccFds, ccHeld, ccLeft>>

EINVAL == 22
ENOMEM == 12
MapFailed == -2         \* usize::MAX as a pointer
NullPointer == -3

\* sys.rs: whether the answer is passed on (check) or only its being an error
\* (check_unit).
TaskCalls == [waitpid |-> "value", kill |-> "unit", getcwd |-> "value", chdir |-> "unit", sigaction |-> "unit",
              sigprocmask |-> "unit", setpgid |-> "unit", getpgid |-> "value", setsid |-> "value"]
HandleCalls == [close |-> "unit", dup2 |-> "value", dup |-> "value", fcntl |-> "value", ioctl |-> "value"]
VnodeCalls == [open |-> "value", read |-> "value", write |-> "value", lseek |-> "value", fstat |-> "unit",
               unlink |-> "unit", mkdir |-> "unit"]
MemCalls == [mmap |-> "value", munmap |-> "unit", mprotect |-> "unit"]
ClockCalls == [clock_gettime |-> "unit", nanosleep |-> "unit", poll |-> "value"]
SocketCalls == [socket |-> "value", bind |-> "unit", listen |-> "unit", accept |-> "value", connect |-> "unit",
                sendmsg |-> "value", recvmsg |-> "value", shutdown |-> "unit"]

SysKind == TaskCalls @@ HandleCalls @@ VnodeCalls @@ MemCalls @@ ClockCalls @@ SocketCalls

\* What the C function returns for an answer that is no error: the answer, or 0.
ProcessWrappers == [waitpid |-> "value", kill |-> "zero", chdir |-> "zero", setpgid |-> "zero", getpgid |-> "value",
                    setsid |-> "value"]
IoWrappers == [open |-> "value", close |-> "zero", read |-> "value", write |-> "value", lseek |-> "value",
               dup |-> "value", dup2 |-> "value"]
ControlWrappers == [fcntl |-> "value", ioctl |-> "value"]
PathWrappers == [unlink |-> "zero", mkdir |-> "zero"]
SocketWrappers == [socket |-> "value", bind |-> "zero", listen |-> "zero", accept |-> "value", connect |-> "zero",
                   sendmsg |-> "value", recvmsg |-> "value", shutdown |-> "zero"]
SignalWrappers == [sigaction |-> "zero", sigprocmask |-> "zero"]
MemWrappers == [munmap |-> "zero", mprotect |-> "zero"]
TimeWrappers == [clock_gettime |-> "zero", nanosleep |-> "zero"]
PollWrapper == [poll |-> "value"]

Wrappers == ProcessWrappers @@ IoWrappers @@ ControlWrappers @@ PathWrappers @@ SocketWrappers
              @@ SignalWrappers @@ MemWrappers @@ TimeWrappers @@ PollWrapper

\* Functions that give out a descriptor.
Opening == {"open", "dup", "socket", "accept"}

CcInit ==
    /\ ccErrno = 0 /\ ccRet = 0 /\ ccAnswer = <<>> /\ ccName = "none"
    /\ ccFds = {} /\ ccHeld = {} /\ ccLeft = CcCalls

Calls(name) == ccLeft > 0 /\ ccLeft' = ccLeft - 1 /\ ccName' = name

\* check: the number of an error is the negated answer.
Check(r) == IF r < 0 THEN <<"err", -r>> ELSE <<"ok", r>>

\* check_unit drops the value.
Checked(name, r) == IF Check(r)[1] = "ok" /\ SysKind[name] = "unit" THEN <<"ok", 0>> ELSE Check(r)

\* The common shape: the result, or errno and -1.
Posix(name, r) ==
    LET c == Checked(name, r)
    IN  /\ ccRet' = IF c[1] = "err" THEN -1 ELSE IF Wrappers[name] = "zero" THEN 0 ELSE c[2]
        /\ ccErrno' = IF c[1] = "err" THEN c[2] ELSE ccErrno
        /\ ccAnswer' = <<r>>

\* The kernel gives the lowest descriptor that is free.
NewFd == CHOOSE d \in 0..CcFdLimit : d \notin ccFds /\ \A e \in 0 .. d - 1 : e \in ccFds
HasFd == Cardinality(ccFds) <= CcFdLimit

SimpleCall(name, r) ==
    /\ Calls(name) /\ name \in DOMAIN Wrappers \ (Opening \cup {"close"})
    /\ Posix(name, r)
    /\ UNCHANGED <<ccFds, ccHeld>>

\* A function whose pointer argument is null asks nobody.
NullArgument(name) ==
    /\ Calls(name) /\ name \in {"open", "read", "write", "unlink", "mkdir", "chdir", "clock_gettime", "nanosleep"}
    /\ ccRet' = -1 /\ ccErrno' = EINVAL /\ ccAnswer' = <<>>
    /\ UNCHANGED <<ccFds, ccHeld>>

OpenCall(name, r) ==
    /\ Calls(name) /\ name \in Opening /\ HasFd
    /\ r < 0 \/ r = NewFd
    /\ Posix(name, r)
    /\ ccFds' = IF r < 0 THEN ccFds ELSE ccFds \cup {r}
    /\ ccHeld' = IF r < 0 THEN ccHeld ELSE ccHeld \cup {r}

CloseCall(d) ==
    /\ Calls("close")
    /\ Posix("close", IF d \in ccFds THEN 0 ELSE -9)
    /\ ccFds' = ccFds \ {d} /\ ccHeld' = ccHeld \ {d}

\* pipe and pipe2: the two descriptors are stored after a success only.
Pipe(r) ==
    /\ Calls("pipe") /\ Cardinality(ccFds) < CcFdLimit
    /\ ccAnswer' = <<r>>
    /\ ccRet' = IF r < 0 THEN -1 ELSE 0
    /\ ccErrno' = IF r < 0 THEN -r ELSE ccErrno
    /\ LET two == {NewFd, CHOOSE d \in 0..CcFdLimit : d \notin ccFds \cup {NewFd}}
       IN  ccFds' = (IF r < 0 THEN ccFds ELSE ccFds \cup two) /\ ccHeld' = (IF r < 0 THEN ccHeld ELSE ccHeld \cup two)

\* The descriptors after stat: its own is closed whatever fstat said.
StatFds(opened, stated) == ccFds

\* stat: open, fstat, close.
Stat(opened, stated) ==
    /\ Calls("stat") /\ HasFd
    /\ ccAnswer' = IF opened < 0 THEN <<opened>> ELSE <<stated>>
    /\ ccRet' = IF opened < 0 \/ stated < 0 THEN -1 ELSE 0
    /\ ccErrno' = IF opened < 0 THEN -opened ELSE IF stated < 0 THEN -stated ELSE ccErrno
    /\ ccFds' = IF opened < 0 THEN ccFds ELSE StatFds(opened, stated)
    /\ UNCHANGED ccHeld

\* isatty: an ioctl; 0 for an error.
Isatty(r) ==
    /\ Calls("isatty") /\ ccAnswer' = <<r>>
    /\ ccRet' = IF r < 0 THEN 0 ELSE 1
    /\ ccErrno' = IF r < 0 THEN -r ELSE ccErrno
    /\ UNCHANGED <<ccFds, ccHeld>>

\* mmap: MAP_FAILED for an empty range, an error or a null address.
Mmap(empty, r) ==
    /\ Calls("mmap") /\ ccAnswer' = IF empty THEN <<>> ELSE <<r>>
    /\ ccRet' = IF empty \/ r <= 0 THEN MapFailed ELSE r
    /\ ccErrno' = IF empty THEN EINVAL ELSE IF r < 0 THEN -r ELSE IF r = 0 THEN ENOMEM ELSE ccErrno
    /\ UNCHANGED <<ccFds, ccHeld>>

\* getcwd: the buffer or null.
Getcwd(bad, r) ==
    /\ Calls("getcwd") /\ ccAnswer' = IF bad THEN <<>> ELSE <<r>>
    /\ ccRet' = IF bad \/ r < 0 THEN NullPointer ELSE 1
    /\ ccErrno' = IF bad THEN EINVAL ELSE IF r < 0 THEN -r ELSE ccErrno
    /\ UNCHANGED <<ccFds, ccHeld>>

\* opendir: the descriptor is closed again when there is no memory for the Dir.
Opendir(r, memory) ==
    /\ Calls("opendir") /\ HasFd /\ (r < 0 \/ r = NewFd)
    /\ ccAnswer' = IF r >= 0 /\ ~memory THEN <<-ENOMEM>> ELSE <<r>>
    /\ ccRet' = IF r < 0 \/ ~memory THEN NullPointer ELSE 1
    /\ ccErrno' = IF r < 0 THEN -r ELSE IF ~memory THEN ENOMEM ELSE ccErrno
    /\ ccFds' = IF r < 0 \/ ~memory THEN ccFds ELSE ccFds \cup {r}
    /\ ccHeld' = IF r < 0 \/ ~memory THEN ccHeld ELSE ccHeld \cup {r}

CcNext ==
    \/ \E n \in DOMAIN Wrappers : NullArgument(n) \/ \E r \in CcValues : SimpleCall(n, r) \/ OpenCall(n, r)
    \/ \E d \in 0..CcFdLimit : CloseCall(d)
    \/ \E r \in CcValues : Pipe(r) \/ Isatty(r) \/ (\E b \in BOOLEAN : Mmap(b, r) \/ Getcwd(b, r) \/ Opendir(r, b))
                            \/ \E s \in CcValues : Stat(r, s)

CcSpec == CcInit /\ [][CcNext]_ccVars

-----------------------------------------------------------------------------
Failure == CASE ccName = "mmap" -> MapFailed [] ccName \in {"getcwd", "opendir"} -> NullPointer
             [] ccName = "isatty" -> 0 [] OTHER -> -1

\* A C function returns its failure value exactly when the kernel answered with
\* an error (or it did not ask), and errno is then the kernel's number; a function
\* that returns a count or a descriptor passes it on.
ErrnoTold ==
    ccName # "none" =>
        /\ (ccAnswer = <<>> \/ ccAnswer[1] < 0) => ccRet = Failure /\ ccErrno = (IF ccAnswer = <<>> THEN EINVAL ELSE -ccAnswer[1])
        /\ ccAnswer # <<>> /\ ccAnswer[1] > 0 => ccRet # Failure
        /\ ccName \in {"read", "write", "lseek", "waitpid", "recvmsg", "poll"} \cup Opening /\ ccAnswer # <<>> =>
              (ccAnswer[1] >= 0 => ccRet = ccAnswer[1])

\* Every descriptor that is open is one the program knows of: functions that
\* make several calls leave none behind when one of them fails.
NoneLeaked == ccFds = ccHeld

-----------------------------------------------------------------------------
(***************************************************************************)
(* The POSIX semaphores and spin locks of userspace/hadron-libc/src/stubs.rs:      *)
(* atomics in user memory that threads spin on. A thread runs                      *)
(* sem_wait or sem_trywait, then works under a spin lock, then sem_post.           *)
(***************************************************************************)
CONSTANTS
    SmThreads,
    SmPermits,      \* the value given to sem_init
    SmRounds        \* bound: rounds of a thread

VARIABLES
    smValue,    \* *sem
    smLock,     \* *lock
    smPc,
    smSeen,     \* v, as each thread loaded it
    smTry,      \* the thread is in sem_trywait
    smLeft

smVars == <<smValue, smLock, smPc, smSeen, smTry, smLeft>>

\* sem_init
SmInit ==
    /\ smValue = SmPermits /\ smLock = 0
    /\ smPc = [t \in SmThreads |-> "start"] /\ smSeen = [t \in SmThreads |-> 0]
    /\ smTry = [t \in SmThreads |-> FALSE] /\ smLeft = [t \in SmThreads |-> SmRounds]

Goto(t, pc) == smPc' = [smPc EXCEPT ![t] = pc]

\* sem_wait or sem_trywait is called.
Begin(t, try) ==
    /\ smPc[t] = "start" /\ smLeft[t] > 0
    /\ smLeft' = [smLeft EXCEPT ![t] = @ - 1] /\ smTry' = [smTry EXCEPT ![t] = try]
    /\ Goto(t, "load") /\ UNCHANGED <<smValue, smLock, smSeen>>

Load(t) ==
    /\ smPc[t] = "load"
    /\ smSeen' = [smSeen EXCEPT ![t] = smValue]
    /\ Goto(t, IF smValue > 0 THEN "cas" ELSE IF smTry[t] THEN "start" ELSE "load")
    /\ UNCHANGED <<smValue, smLock, smTry, smLeft>>

Exchange(t) == smValue = smSeen[t]

\* compare_exchange(v, v - 1); sem_wait looks again when it fails, sem_trywait
\* gives up.
Cas(t) ==
    /\ smPc[t] = "cas"
    /\ IF Exchange(t) THEN smValue' = smSeen[t] - 1 /\ Goto(t, "lock")
       ELSE UNCHANGED smValue /\ Goto(t, IF smTry[t] THEN "start" ELSE "load")
    /\ UNCHANGED <<smLock, smSeen, smTry, smLeft>>

SpinExchange(t) == smLock = 0 /\ smLock' = 1

\* pthread_spin_lock, pthread_spin_unlock
SpinLock(t) ==
    /\ smPc[t] = "lock" /\ SpinExchange(t)
    /\ Goto(t, "inside") /\ UNCHANGED <<smValue, smSeen, smTry, smLeft>>

SpinTrylock(t) ==
    /\ smPc[t] = "lock" /\ smLock # 0
    /\ Goto(t, "post") /\ UNCHANGED <<smValue, smLock, smSeen, smTry, smLeft>>

SpinUnlock(t) ==
    /\ smPc[t] = "inside" /\ smLock' = 0
    /\ Goto(t, "post") /\ UNCHANGED <<smValue, smSeen, smTry, smLeft>>

Post(t) ==
    /\ smPc[t] = "post" /\ smValue' = smValue + 1
    /\ Goto(t, "start") /\ UNCHANGED <<smLock, smSeen, smTry, smLeft>>

SmStep(t) == (\E try \in BOOLEAN : Begin(t, try)) \/ Load(t) \/ Cas(t) \/ SpinLock(t) \/ SpinTrylock(t) \/ SpinUnlock(t) \/ Post(t)

SmNext == \E t \in SmThreads : SmStep(t)

SmSpec == SmInit /\ [][SmNext]_smVars

-----------------------------------------------------------------------------
Inside == {t \in SmThreads : smPc[t] \in {"lock", "inside", "post"}}

\* The count and the threads that hold a permit always make up the permits there
\* were, so no more threads are inside than sem_init allows.
PermitsKept == smValue >= 0 /\ smValue + Cardinality(Inside) = SmPermits

\* One thread at a time holds the spin lock, and the word says so.
SpinExclusive == Cardinality({t \in SmThreads : smPc[t] = "inside"}) = smLock
-----------------------------------------------------------------------------
(***************************************************************************)
(* Threads: pthread_create, pthread_join and pthread_exit of                    *)
(* userspace/hadron-libc/core/src/pthread.rs over sys_task_clone and task_wait.    *)
(* A new thread gets a region with its stack and, above it, its control block    *)
(* (TCB), which holds the function and the argument; it may run and end before     *)
(* its creator has stored its identifier. Regions are never unmapped.              *)
(***************************************************************************)
CONSTANTS
    ThIds,          \* 1 is the first thread; the others in the order of their identifiers
    ThRegions,      \* regions sys_mmap can give out
    ThJobs          \* a function and its argument

VARIABLES
    thPc,       \* "none", "start", "run", "clone", "store", "zombie", "reaped"
    thRegion,   \* the region each thread's %fs points to, 0 for none
    thNew,      \* pthread_create in progress: the region, and the child once there is one
    thTcb,      \* region -> the job in its TCB, or <<>>
    thParent,   \* the creator of each thread
    thStored,   \* identifiers that have been stored in *thread
    thRan,      \* the job each thread has run, or <<>>
    thAsked,    \* history: the job it was created for
    thJoined    \* what the joins have returned: <<thread, of, result>>

thVars == <<thPc, thRegion, thNew, thTcb, thParent, thStored, thRan, thAsked, thJoined>>

ThInit ==
    /\ thPc = [t \in ThIds |-> IF t = 1 THEN "run" ELSE "none"]
    /\ thRegion = [t \in ThIds |-> 0] /\ thNew = [t \in ThIds |-> <<0, 0>>]
    /\ thTcb = [r \in ThRegions |-> <<>>] /\ thParent = [t \in ThIds |-> 0]
    /\ thStored = {} /\ thRan = [t \in ThIds |-> <<>>] /\ thAsked = [t \in ThIds |-> <<>>] /\ thJoined = {}

\* alloc_stack and the TCB; without memory it is ENOMEM and nothing has happened.
PthreadCreate(t, job) ==
    /\ thPc[t] = "run"
    /\ \E r \in ThRegions :
          /\ thTcb[r] = <<>>
          /\ thTcb' = [thTcb EXCEPT ![r] = <<job>>]
          /\ thNew' = [thNew EXCEPT ![t] = <<r, 0>>]
    /\ thPc' = [thPc EXCEPT ![t] = "clone"]
    /\ UNCHANGED <<thRegion, thParent, thStored, thRan, thAsked, thJoined>>

\* sys_task_clone: the next identifier; the child is registered and spawned before
\* the call returns.  Its stack and its TLS pointer are the ones it was given.
TaskClone(t) ==
    /\ thPc[t] = "clone"
    /\ \E c \in ThIds :
          /\ thPc[c] = "none" /\ \A d \in ThIds : thPc[d] = "none" => c <= d
          /\ thPc' = [thPc EXCEPT ![t] = "store", ![c] = "start"]
          /\ thRegion' = [thRegion EXCEPT ![c] = thNew[t][1]]
          /\ thParent' = [thParent EXCEPT ![c] = t]
          /\ thNew' = [thNew EXCEPT ![t] = <<thNew[t][1], c>>]
          /\ thAsked' = [thAsked EXCEPT ![c] = thTcb[thNew[t][1]]]
    /\ UNCHANGED <<thTcb, thStored, thRan, thJoined>>

\* The creator stores the identifier.
StoreId(t) ==
    /\ thPc[t] = "store"
    /\ thStored' = thStored \cup {thNew[t][2]}
    /\ thNew' = [thNew EXCEPT ![t] = <<0, 0>>] /\ thPc' = [thPc EXCEPT ![t] = "run"]
    /\ UNCHANGED <<thRegion, thTcb, thParent, thRan, thAsked, thJoined>>

\* The child: the function and the argument from current_tcb().
RunJob(c) ==
    /\ thPc[c] = "start" /\ thPc' = [thPc EXCEPT ![c] = "run"]
    /\ thRan' = [thRan EXCEPT ![c] = thTcb[thRegion[c]]]
    /\ UNCHANGED <<thRegion, thNew, thTcb, thParent, thStored, thAsked, thJoined>>

\* sys_exit(0), after the function or in pthread_exit.
PthreadExit(c) ==
    /\ thPc[c] = "run" /\ c # 1
    /\ thPc' = [thPc EXCEPT ![c] = "zombie"]
    /\ UNCHANGED <<thRegion, thNew, thTcb, thParent, thStored, thRan, thAsked, thJoined>>

\* pthread_join is task_wait: a child of the caller, once it has exited; ECHILD for
\* a thread that somebody else created or that has been waited for.
PthreadJoin(t, c) ==
    /\ thPc[t] = "run" /\ c \in thStored /\ c # t
    /\ IF thParent[c] # t \/ thPc[c] = "reaped"
       THEN thJoined' = thJoined \cup {<<t, c, "ECHILD">>} /\ UNCHANGED thPc
       ELSE /\ thPc[c] = "zombie"
            /\ thPc' = [thPc EXCEPT ![c] = "reaped"]
            /\ thJoined' = thJoined \cup {<<t, c, "ok">>}
    /\ UNCHANGED <<thRegion, thNew, thTcb, thParent, thStored, thRan, thAsked>>

ThNext ==
    \E t \in ThIds :
        \/ (\E job \in ThJobs : PthreadCreate(t, job)) \/ TaskClone(t) \/ StoreId(t)
        \/ RunJob(t) \/ PthreadExit(t) \/ \E c \in ThIds : PthreadJoin(t, c)

\* A thread runs what it was created for, in a region of its own, however early it
\* runs; a join that succeeds has waited for the end of its thread, and no other join
\* of that thread succeeds.
ThreadsRunTheirs ==
    /\ \A t \in ThIds : thRan[t] # <<>> => thRan[t] = thAsked[t]
    /\ \A t, u \in ThIds : t # u /\ thRegion[t] # 0 => thRegion[t] # thRegion[u]
    /\ \A j \in thJoined : j[3] = "ok" => thPc[j[2]] = "reaped" /\ thRan[j[2]] # <<>>
    /\ \A i, j \in thJoined : i[3] = "ok" /\ j[3] = "ok" /\ i[2] = j[2] => i = j
=============================================================================
