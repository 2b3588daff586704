------------------------------ MODULE LibcText ------------------------------
(*****************************************************************************)
(* The parts of the C library that compute: strings, numbers, sorting and    *)
(* searching, the environment and printf.                                    *)
(*****************************************************************************)
EXTENDS Integers, Sequences, FiniteSets, SequencesExt

-----------------------------------------------------------------------------
(***************************************************************************)
(* userspace/hadron-libc/core/src/string.rs over one small memory: a pointer is  *)
(* an index, Null is one past the end, byte 0 ends a string. A call that writes  *)
(* is an action whose arguments respect what C asks of the caller (the written   *)
(* bytes are in the memory, whose last byte stays 0; str* copies do not overlap); calls that only read    *)
(* are operators.                                                                *)
(***************************************************************************)
CONSTANTS
    LsMemories,     \* the memories to start from: functions 0..n-1 -> bytes, the last byte 0
    LsDelims,       \* delimiter strings: memories of their own
    LsLower,        \* to_ascii_lowercase on the bytes
    LsMaxN,         \* bound: sizes passed to a call
    LsTokCalls      \* bound: calls of strtok_r

VARIABLES
    lsMem,      \* the memory
    lsOld,      \* the memory before the last call
    lsCall,     \* the last call: <<name, arguments...>>
    lsSave,     \* saveptr of strtok_r
    lsToks      \* the tokens it has returned, as <<start, length>>, and the delimiters

lsVars == <<lsMem, lsOld, lsCall, lsSave, lsToks>>

Size == Cardinality(DOMAIN lsMem)
Null == Size
Least(S, none) == IF S = {} THEN none ELSE Min(S)
Smaller(a, b) == IF a < b THEN a ELSE b

\* The string functions that only read: m is the memory, s a pointer.
Strlen(m, s) == Min({n \in 0 .. Size - 1 - s : m[s + n] = 0})
Strnlen(m, s, maxlen) == Least({n \in 0 .. Smaller(maxlen, Size - s) - 1 : m[s + n] = 0}, maxlen)
Memcmp(m, a, b, n) ==
    LET d == {i \in 0 .. n - 1 : m[a + i] # m[b + i]} IN IF d = {} THEN 0 ELSE m[a + Min(d)] - m[b + Min(d)]

\* strcmp and strcasecmp stop at the first difference or at the end of a string.
CompareBy(m, a, b, f) ==
    LET i == Min({i \in 0 .. Size : a + i >= Size \/ b + i >= Size \/ f[m[a + i]] # f[m[b + i]] \/ f[m[a + i]] = 0})
    IN  f[m[a + i]] - f[m[b + i]]

\* strncmp and strncasecmp stop after n bytes, too.
CompareN(m, a, b, n, f) ==
    LET stop == {i \in 0 .. n - 1 : f[m[a + i]] # f[m[b + i]] \/ f[m[a + i]] = 0}
    IN  IF stop = {} THEN 0 ELSE f[m[a + Min(stop)]] - f[m[b + Min(stop)]]

Strchrnul(m, s, c) == s + Min({i \in 0 .. Size - 1 - s : m[s + i] \in {c, 0}})
Strchr(m, s, c) == LET p == Strchrnul(m, s, c) IN IF m[p] = c THEN p ELSE Null
Strrchr(m, s, c) ==
    LET at == {i \in s .. s + Strlen(m, s) : m[i] = c} IN IF at = {} THEN Null ELSE Max(at)

Strstr(m, h, n) ==
    IF Strlen(m, n) = 0 THEN h
    ELSE Least({h + i : i \in {i \in 0 .. Strlen(m, h) - Strlen(m, n) : Memcmp(m, h + i, n, Strlen(m, n)) = 0}}, Null)

\* strspn and strcspn with the set given as a string d of its own.
Bytes(d) == {d[i] : i \in 0 .. Min({j \in DOMAIN d : d[j] = 0}) - 1}
Strspn(m, s, d) == Min({n \in 0 .. Size - 1 - s : m[s + n] = 0 \/ m[s + n] \notin Bytes(d)})
Strcspn(m, s, d) == Min({n \in 0 .. Size - 1 - s : m[s + n] = 0 \/ m[s + n] \in Bytes(d)})
Strpbrk(m, s, d) == LET p == s + Strcspn(m, s, d) IN IF m[p] = 0 THEN Null ELSE p

-----------------------------------------------------------------------------
(* The functions that write.                                                   *)

Store(m, p, b) == [m EXCEPT ![p] = b]

\* memcpy: the bytes one after the other, upwards.
Memcpy(m, dest, src, n) == FoldLeft(LAMBDA x, i : Store(x, dest + i - 1, x[src + i - 1]), m, [i \in 1..n |-> i])
Downwards(m, dest, src, n) == FoldLeft(LAMBDA x, i : Store(x, dest + n - i, x[src + n - i]), m, [i \in 1..n |-> i])

Memmove(m, dest, src, n) ==
    IF dest < src THEN Memcpy(m, dest, src, n) ELSE IF dest > src THEN Downwards(m, dest, src, n) ELSE m

Memset(m, dest, c, n) == [p \in DOMAIN m |-> IF p \in dest .. dest + n - 1 THEN c ELSE m[p]]
Strcpy(m, dest, src) == Memcpy(m, dest, src, Strlen(m, src) + 1)
Strncpy(m, dest, src, n) ==
    LET k == Strnlen(m, src, n) IN Memset(Memcpy(m, dest, src, k), dest + k, 0, n - k)
Strcat(m, dest, src) == Strcpy(m, dest + Strlen(m, dest), src)
Strncat(m, dest, src, n) ==
    LET k == Strnlen(m, src, n)
        at == dest + Strlen(m, dest)
    IN  Store(Memcpy(m, at, src, k), at + k, 0)

\* strlcpy and strlcat end the string within size bytes; strerror_r copies likewise.
Strlcpy(m, dest, src, size) ==
    LET len == Strlen(m, src)
        k == IF len < size THEN len ELSE size - 1
    IN  IF size = 0 THEN m ELSE Store(Memcpy(m, dest, src, k), dest + k, 0)

Strlcat(m, dest, src, size) ==
    LET dlen == Strnlen(m, dest, size)
        k == Smaller(Strlen(m, src), size - dlen - 1)
    IN  IF dlen = size THEN m ELSE Store(Memcpy(m, dest + dlen, src, k), dest + dlen + k, 0)

Strxfrm(m, dest, src, n) ==
    LET len == Strlen(m, src) IN IF n = 0 THEN m ELSE Memcpy(m, dest, src, IF len < n THEN len + 1 ELSE n)

-----------------------------------------------------------------------------
LsInit ==
    /\ lsMem \in LsMemories /\ lsOld = lsMem /\ lsCall = <<"none">>
    /\ lsSave = 0 /\ lsToks = <<>>

\* How many bytes from dest a call writes at most.
Writes(name, dest, src, n) ==
    CASE name \in {"memmove", "memset", "strncpy", "strxfrm", "strlcpy", "strlcat"} -> n
      [] name = "strcpy" -> Strlen(lsMem, src) + 1
      [] name = "strcat" -> Strlen(lsMem, dest) + Strlen(lsMem, src) + 1
      [] OTHER -> Strlen(lsMem, dest) + n + 1

\* How many bytes from src it reads.
Reads(name, src, n) == IF name = "memmove" THEN n ELSE IF name = "memset" THEN 0 ELSE Strlen(lsMem, src) + 1

After(name, dest, src, n) ==
    CASE name = "memmove" -> Memmove(lsMem, dest, src, n)
      [] name = "memset" -> Memset(lsMem, dest, 1, n)
      [] name = "strcpy" -> Strcpy(lsMem, dest, src)
      [] name = "strncpy" -> Strncpy(lsMem, dest, src, n)
      [] name = "strcat" -> Strcat(lsMem, dest, src)
      [] name = "strncat" -> Strncat(lsMem, dest, src, n)
      [] name = "strlcpy" -> Strlcpy(lsMem, dest, src, n)
      [] name = "strlcat" -> Strlcat(lsMem, dest, src, n)
      [] OTHER -> Strxfrm(lsMem, dest, src, n)

Names == {"memmove", "memset", "strcpy", "strncpy", "strcat", "strncat", "strlcpy", "strlcat", "strxfrm"}

\* One call that writes.
Write(name, dest, src, n) ==
    LET w == Writes(name, dest, src, n)
        r == Reads(name, src, n)
    IN  /\ lsCall = <<"none">>
        /\ dest + w < Size /\ src + r <= Size
        /\ name \notin {"memmove", "memset"} => dest + w <= src \/ src + r <= dest
        /\ name \in {"memset", "strcpy", "strcat"} => (name = "memset" /\ src = 0) \/ (name # "memset" /\ n = 0)
        /\ lsMem' = After(name, dest, src, n)
        /\ lsOld' = lsMem /\ lsCall' = <<name, dest, src, n>>
        /\ UNCHANGED <<lsSave, lsToks>>

\* strtok_r, first with a string at 0, then with null.
Strtok(d) ==
    LET s == IF lsToks = <<>> THEN 0 ELSE lsSave
        token == s + Strspn(lsMem, s, d)
        end == token + Strcspn(lsMem, token, d)
        calls == Len(lsToks)
    IN  /\ lsCall \in {<<"none">>, <<"strtok", d>>} /\ calls < LsTokCalls
        /\ lsCall' = <<"strtok", d>>
        /\ IF s = Null \/ lsMem[token] = 0
           THEN lsSave' = Null /\ lsToks' = Append(lsToks, <<>>) /\ UNCHANGED lsMem
           ELSE /\ lsToks' = Append(lsToks, <<token, end - token>>)
                /\ IF lsMem[end] # 0 THEN lsMem' = Store(lsMem, end, 0) /\ lsSave' = end + 1
                   ELSE lsSave' = Null /\ UNCHANGED lsMem
        /\ UNCHANGED lsOld

LsNext ==
    \/ \E name \in Names, dest, src \in DOMAIN lsMem, n \in 0..LsMaxN : Write(name, dest, src, n)
    \/ \E d \in LsDelims : Strtok(d)

LsSpec == LsInit /\ [][LsNext]_lsVars

-----------------------------------------------------------------------------
StringAt(m, s) == [i \in 1..Strlen(m, s) |-> m[s + i - 1]]

\* A call writes what C says of it and no byte besides: memmove moves the bytes as
\* they were, however the ranges overlap; the bounded copies end their string
\* within the size they were given.
WritesRight ==
    lsCall[1] \in Names =>
        LET name == lsCall[1]  dest == lsCall[2]  src == lsCall[3]  n == lsCall[4]
            text == StringAt(lsOld, src)
            prior == StringAt(lsOld, dest)
            upto == CASE name = "strcpy" -> Len(text) + 1
                      [] name = "strcat" -> Len(prior) + Len(text) + 1
                      [] name = "strncat" -> Len(prior) + Smaller(n, Len(text)) + 1
                      [] OTHER -> n
        IN  /\ \A p \in DOMAIN lsMem : p \notin dest .. dest + upto - 1 => lsMem[p] = lsOld[p]
            /\ CASE name = "memmove" -> \A i \in 0 .. n - 1 : lsMem[dest + i] = lsOld[src + i]
                 [] name = "strcpy" -> StringAt(lsMem, dest) = text
                 [] name = "strcat" -> StringAt(lsMem, dest) = prior \o text
                 [] name = "strncat" -> StringAt(lsMem, dest) = prior \o SubSeq(text, 1, Smaller(n, Len(text)))
                 [] name = "strlcpy" -> n > 0 => StringAt(lsMem, dest) = SubSeq(text, 1, Smaller(n - 1, Len(text)))
                 [] name = "strlcat" -> Len(prior) < n =>
                        StringAt(lsMem, dest) = SubSeq(prior \o text, 1, Smaller(n - 1, Len(prior) + Len(text)))
                 [] OTHER -> TRUE

\* The searches find the first, or last, place there is, in any memory.
SearchesRight ==
    lsCall = <<"none">> => \A s, t \in DOMAIN lsMem :
        /\ LET found == Strstr(lsMem, s, t)
               at == {i \in 0..Strlen(lsMem, s) : IsPrefix(StringAt(lsMem, t), SubSeq(StringAt(lsMem, s), i + 1, Strlen(lsMem, s)))}
           IN  found = (IF at = {} THEN Null ELSE s + Min(at))
        /\ (CompareBy(lsMem, s, t, LsLower) = 0) =
               (Len(StringAt(lsMem, s)) = Len(StringAt(lsMem, t))
                /\ \A i \in DOMAIN StringAt(lsMem, s) : LsLower[StringAt(lsMem, s)[i]] = LsLower[StringAt(lsMem, t)[i]])
        /\ \A b \in Range(lsMem) : LET p == Strchr(lsMem, s, b)  q == Strrchr(lsMem, s, b)
                                   IN  (p = Null) = (q = Null) /\ p <= q
        /\ \A n \in 0..(Smaller(Size - s, Size - t)) :
              (CompareN(lsMem, s, t, n, LsLower) = 0) =
                  \A i \in 0 .. n - 1 : (\A j \in 0 .. i - 1 : lsMem[s + j] # 0) => LsLower[lsMem[s + i]] = LsLower[lsMem[t + i]]
        /\ \A d \in LsDelims : Strpbrk(lsMem, s, d) =
              Least({s + i : i \in {i \in 0 .. Strlen(lsMem, s) - 1 : lsMem[s + i] \in Bytes(d)}}, Null)

\* The tokens of strtok_r are the maximal runs of other characters, in order, each
\* ended by a 0; after the last it keeps returning null.
TokensRight ==
    lsCall[1] = "strtok" =>
        LET other == {p \in 0 .. Strlen(lsOld, 0) - 1 : lsOld[p] \notin Bytes(lsCall[2])}
            starts == {p \in other : p - 1 \notin other}
            n == Len(lsToks)
        IN  \A k \in 1..n :
               IF k > Cardinality(starts) THEN lsToks[k] = <<>>
               ELSE /\ lsToks[k] # <<>> /\ Cardinality({p \in starts : p <= lsToks[k][1]}) = k /\ lsToks[k][1] \in starts
                    /\ lsToks[k][1] .. lsToks[k][1] + lsToks[k][2] - 1 \subseteq other
                    /\ lsMem[lsToks[k][1] + lsToks[k][2]] = 0

-----------------------------------------------------------------------------
(***************************************************************************)
(* userspace/hadron-libc/core/src/conv.rs: strtoul, strtol, atoi and the        *)
(* scanner of strtod, over short texts. A text is a sequence of characters (its  *)
(* end reads as 0); the word is LcMax + 1 wide so that short texts overflow it.  *)
(***************************************************************************)
CONSTANTS
    LcMax,          \* u64::MAX (one less than a power of two)
    LcDigit,        \* character -> value of the digit
    LcTexts,        \* the texts
    LcBases         \* the bases

VARIABLES
    lcText, lcBase,
    lcScan,         \* <<what the common part of strtoul and strtol found>>: <<>> before it
    lcResult        \* what the calls returned: <<>> before them

lcVars == <<lcText, lcBase, lcScan, lcResult>>

SMax == LcMax \div 2
SMin == -SMax - 1

LcAt(s, i) == IF i < Len(s) THEN s[i + 1] ELSE "0END"

\* digit_value.
IsDigit(c, base) == c \in DOMAIN LcDigit /\ LcDigit[c] < base

\* The first position from i on that is not in the class.
SkipWhile(s, i, P(_)) == Min({j \in i..Len(s) : j = Len(s) \/ ~P(LcAt(s, j))})

\* parse_uint: [val, over, idx]; after an overflow the other digits are skipped.
ParseUint(s, idx, base) ==
    LET end == SkipWhile(s, idx, LAMBDA c : IsDigit(c, base))
    IN  FoldLeft(LAMBDA p, c : IF p.over \/ p.val * base + LcDigit[c] > LcMax THEN [p EXCEPT !.val = LcMax, !.over = TRUE]
                               ELSE [p EXCEPT !.val = @ * base + LcDigit[c]],
                 [val |-> 0, over |-> FALSE, idx |-> end], SubSeq(s, idx + 1, end))

\* resolve_base_and_prefix.
Prefixed(s, i) == LcAt(s, i) = "0" /\ LcAt(s, i + 1) = "x"
ResolveBase(s, i, base) ==
    IF base \in {0, 16} /\ Prefixed(s, i) THEN <<16, i + 2>>
    ELSE IF base = 0 THEN (IF LcAt(s, i) = "0" THEN <<8, i + 1>> ELSE <<10, i>>)
    ELSE <<base, i>>

\* The part strtoul and strtol share: [start, base, neg, val, over, idx].
Scan(s, base) ==
    LET i0 == SkipWhile(s, 0, LAMBDA c : c = " ")
        start == IF LcAt(s, i0) \in {"-", "+"} THEN i0 + 1 ELSE i0
        b == ResolveBase(s, start, base)
        u == ParseUint(s, b[2], b[1])
    IN  [start |-> start, base |-> b[1], neg |-> LcAt(s, i0) = "-", val |-> u.val, over |-> u.over, idx |-> u.idx]

Ret(v, errno, end) == [val |-> v, errno |-> errno, end |-> end]
BadBase(b) == b < 2 \/ b > 36

Strtoul(p) ==
    IF BadBase(p.base) THEN Ret(0, "EINVAL", 0)
        ELSE IF p.idx = p.start THEN Ret(0, "", p.start)
        ELSE Ret(IF p.neg THEN (LcMax + 1 - p.val) % (LcMax + 1) ELSE p.val, IF p.over THEN "ERANGE" ELSE "", p.idx)

Strtol(p) ==
    IF BadBase(p.base) THEN Ret(0, "EINVAL", 0)
        ELSE IF p.idx = p.start THEN Ret(0, "", p.start)
        ELSE IF p.over \/ p.val > SMax + (IF p.neg THEN 1 ELSE 0) THEN Ret(IF p.neg THEN SMin ELSE SMax, "ERANGE", p.idx)
        ELSE Ret(IF p.neg THEN -p.val ELSE p.val, "", p.idx)

-----------------------------------------------------------------------------
(* parse_float_parts: [mantissa, frac, exp, end]; the end is -1 without digits.  *)

\* The digits from i on added to a mantissa; a fraction stops counting at overflow.
Mantissa(s, i, base, m, fraction) ==
    LET end == SkipWhile(s, i, LAMBDA c : IsDigit(c, base))
    IN  FoldLeft(LAMBDA p, c :
                    IF fraction /\ p.over THEN p
                    ELSE IF p.val * base + LcDigit[c] > LcMax THEN [p EXCEPT !.over = TRUE, !.val = IF fraction THEN @ ELSE LcMax]
                    ELSE [p EXCEPT !.val = @ * base + LcDigit[c], !.frac = IF fraction THEN @ + 1 ELSE 0],
                 [m EXCEPT !.idx = end, !.digits = @ \/ end > i], SubSeq(s, i + 1, end))

\* An exponent without digits takes back one character.
Exponent(s, i, marker) ==
    LET sign == LcAt(s, i + 1) \in {"-", "+"}
        from == IF sign THEN i + 2 ELSE i + 1
        u == ParseUint(s, from, 10)
    IN  IF LcAt(s, i) # marker THEN [exp |-> 0, idx |-> i]
        ELSE IF u.idx = from THEN [exp |-> 0, idx |-> from - 1]
        ELSE [exp |-> IF LcAt(s, i + 1) = "-" THEN -u.val ELSE u.val, idx |-> u.idx]

ParseFloatParts(s, i) ==
    LET j == IF LcAt(s, i) \in {"-", "+"} THEN i + 1 ELSE i
        hex == Prefixed(s, j)
        base == IF hex THEN 16 ELSE 10
        whole == Mantissa(s, IF hex THEN j + 2 ELSE j, base, [val |-> 0, over |-> FALSE, frac |-> 0, idx |-> 0, digits |-> FALSE], FALSE)
        all == IF LcAt(s, whole.idx) = "." THEN Mantissa(s, whole.idx + 1, base, whole, TRUE) ELSE whole
        e == Exponent(s, all.idx, IF hex THEN "p" ELSE "e")
    IN  IF ~all.digits THEN [mantissa |-> 0, frac |-> 0, exp |-> 0, end |-> i]
        ELSE [mantissa |-> all.val, frac |-> all.frac, exp |-> e.exp, end |-> e.idx]

Strtod(s) == ParseFloatParts(s, SkipWhile(s, 0, LAMBDA c : c = " "))

-----------------------------------------------------------------------------
LcInit == lcText \in LcTexts /\ lcBase \in LcBases /\ lcScan = <<>> /\ lcResult = <<>>

Begin ==
    /\ lcScan = <<>>
    /\ lcScan' = <<Scan(lcText, lcBase)>>
    /\ UNCHANGED <<lcText, lcBase, lcResult>>

Finish ==
    /\ lcScan # <<>> /\ lcResult = <<>>
    /\ lcResult' = <<Strtoul(lcScan[1]), Strtol(lcScan[1]), Strtod(lcText)>>
    /\ UNCHANGED <<lcText, lcBase, lcScan>>

LcNext == Begin \/ Finish

LcSpec == LcInit /\ [][LcNext]_lcVars

-----------------------------------------------------------------------------
\* Horner's rule without a bound.
ValueOf(s, base) == FoldLeft(LAMBDA v, c : v * base + LcDigit[c], 0, s)

\* What the text up to a conversion's end says: its digits, after blanks, sign and
\* prefix.
LcNumber(end) == ValueOf(SubSeq(lcText, ResolveBase(lcText, lcScan[1].start, lcBase)[2] + 1, end), lcScan[1].base)

Limited(n) == IF n > SMax THEN SMax ELSE IF n < SMin THEN SMin ELSE n

Agree(u, l, n, signed) ==
    /\ ~IsDigit(LcAt(lcText, l.end), lcScan[1].base) /\ u.end = l.end
    /\ l.val = Limited(signed)
    /\ (l.errno = "ERANGE") = (l.val # signed)
    /\ (u.errno = "ERANGE") = (n > LcMax)
    /\ n <= LcMax => (u.val - signed) % (LcMax + 1) = 0

\* strtol returns the number the text holds when the word can hold it, and the
\* nearest limit with ERANGE when it cannot, for either sign; strtoul the number
\* modulo the word; and both stop at the first character that is no digit.
IntegersRight ==
    lcResult # <<>> /\ ~BadBase(lcScan[1].base) /\ lcResult[2].end > lcScan[1].start =>
        Agree(lcResult[1], lcResult[2], LcNumber(lcResult[2].end),
              IF lcScan[1].neg THEN -LcNumber(lcResult[2].end) ELSE LcNumber(lcResult[2].end))

\* The scanner of strtod ends after the longest number the text starts with: its
\* end is no digit, a point, or a marker with an exponent after it. (An exponent
\* sign without digits is given back, the marker before it is not; and a whole
\* part that overflows the mantissa loses its size. Both are left out here.)
FloatsRight ==
    lcResult # <<>> =>
        LET f == lcResult[3]
            body == SubSeq(lcText, 1, f.end)
            plain == \A i \in DOMAIN body : body[i] \in {"0", "1", "9"}
        IN  /\ (f.end < Len(lcText) /\ plain /\ f.end > 0) => ~IsDigit(LcAt(lcText, f.end), 10)
            /\ (plain /\ f.end > 0 /\ ValueOf(body, 10) <= LcMax) => f.mantissa = ValueOf(body, 10)
            /\ f.frac <= Cardinality({i \in DOMAIN body : body[i] \in DOMAIN LcDigit})

-----------------------------------------------------------------------------
(***************************************************************************)
(* userspace/hadron-libc/core/src/search.rs: qsort as introsort (insertion sort  *)
(* for short ranges, heapsort when the depth limit is reached, else a partition   *)
(* around the median of three) and bsearch. The recursion of introsort is the      *)
(* stack of ranges still to do. Positions count from 0.                            *)
(***************************************************************************)
CONSTANTS
    LqArrays,       \* the arrays: functions 0..n-1 -> values
    LqThreshold,    \* INSERTION_THRESHOLD
    LqDepth,        \* depth limits to start with
    LqKeys          \* keys to search for

VARIABLES
    lqBase,     \* the array
    lqGiven,    \* as it was given
    lqTodo,     \* ranges [lo, hi, depth], the next one last
    lqFound     \* what bsearch has returned: <<key, position or -1>>

lqVars == <<lqBase, lqGiven, lqTodo, lqFound>>

Count == Cardinality(DOMAIN lqBase)
Swap(a, i, j) == [a EXCEPT ![i] = a[j], ![j] = a[i]]

LqInit ==
    /\ lqBase \in LqArrays /\ lqGiven = lqBase /\ lqFound = <<>>
    /\ \E d \in LqDepth : lqTodo = IF Count <= 1 THEN <<>> ELSE <<[lo |-> 0, hi |-> Count - 1, depth |-> d]>>

Top == Last(lqTodo)

RECURSIVE Sink(_, _, _)
Sink(a, lo, j) == IF j > lo /\ a[j - 1] > a[j] THEN Sink(Swap(a, j - 1, j), lo, j - 1) ELSE a

\* insertion_sort of the range.
InsertionSort(a, lo, hi) == FoldLeft(LAMBDA x, i : Sink(x, lo, lo + i), a, [i \in 1 .. hi - lo |-> i])

\* The largest of root and its children among the first n elements from lo on.
Largest(a, lo, root, n) ==
    LET l == IF 2 * root + 1 < n /\ a[lo + root] < a[lo + 2 * root + 1] THEN 2 * root + 1 ELSE root
    IN  IF 2 * root + 2 < n /\ a[lo + l] < a[lo + 2 * root + 2] THEN 2 * root + 2 ELSE l

RECURSIVE SiftDown(_, _, _, _)
SiftDown(a, lo, root, n) ==
    IF Largest(a, lo, root, n) = root THEN a
    ELSE SiftDown(Swap(a, lo + root, lo + Largest(a, lo, root, n)), lo, Largest(a, lo, root, n), n)

Heapsort(a, lo, n) ==
    LET heap == FoldLeft(LAMBDA x, k : SiftDown(x, lo, n \div 2 - k, n), a, [k \in 1 .. n \div 2 + 1 |-> k - 1])
    IN  FoldLeft(LAMBDA x, k : SiftDown(Swap(x, lo, lo + n - k), lo, 0, n - k), heap, [k \in 1 .. n - 1 |-> k])

\* partition: the median of three goes to the end but one ...
Ordered(a, i, j) == IF a[i] > a[j] THEN Swap(a, i, j) ELSE a
MedianOfThree(a, lo, hi) ==
    LET mid == lo + (hi - lo) \div 2
    IN  Swap(Ordered(Ordered(Ordered(a, lo, mid), lo, hi), mid, hi), mid, hi - 1)

\* ... the two positions run towards each other ...
FromLeft(a, i, hi, p) == CHOOSE k \in i .. hi - 1 : (k = hi - 1 \/ a[k] >= p) /\ \A m \in i .. k - 1 : a[m] < p
FromRight(a, j, lo, p) == CHOOSE k \in lo .. j : (k = lo \/ a[k] <= p) /\ \A m \in k + 1 .. j : a[m] > p

RECURSIVE Cross(_, _, _, _, _)
Cross(a, i, j, lo, hi) ==
    LET i1 == FromLeft(a, i + 1, hi, a[hi - 1])
        j1 == FromRight(a, j - 1, lo, a[hi - 1])
    IN  IF i1 >= j1 THEN [arr |-> Swap(a, i1, hi - 1), at |-> i1]
        ELSE Cross(Swap(a, i1, j1), i1, j1, lo, hi)

\* ... and the pivot goes between the parts.
Partition(a, lo, hi) == Cross(MedianOfThree(a, lo, hi), lo, hi - 1, lo, hi)

\* One call of introsort: what it leaves for the calls it makes.
Introsort ==
    /\ lqTodo # <<>>
    /\ LET r == Top
           rest == Front(lqTodo)
           n == r.hi - r.lo + 1
       IN  CASE r.lo >= r.hi -> lqTodo' = rest /\ UNCHANGED lqBase
             [] r.lo < r.hi /\ n <= LqThreshold -> lqBase' = InsertionSort(lqBase, r.lo, r.hi) /\ lqTodo' = rest
             [] n > LqThreshold /\ r.depth = 0 -> lqBase' = Heapsort(lqBase, r.lo, n) /\ lqTodo' = rest
             [] OTHER ->
                  LET p == Partition(lqBase, r.lo, r.hi)
                      below == IF p.at > 0 THEN <<[lo |-> r.lo, hi |-> p.at - 1, depth |-> r.depth - 1]>> ELSE <<>>
                  IN  /\ lqBase' = p.arr
                      /\ lqTodo' = rest \o <<[lo |-> p.at + 1, hi |-> r.hi, depth |-> r.depth - 1]>> \o below
    /\ UNCHANGED <<lqGiven, lqFound>>

RECURSIVE Search(_, _, _)
Search(key, lo, hi) ==
    LET mid == lo + (hi - lo) \div 2
    IN  CASE lo >= hi -> -1
          [] lo < hi /\ key < lqBase[mid] -> Search(key, lo, mid)
          [] lo < hi /\ key > lqBase[mid] -> Search(key, mid + 1, hi)
          [] OTHER -> mid

Bsearch(key) ==
    /\ lqTodo = <<>> /\ lqFound = <<>>
    /\ lqFound' = <<key, Search(key, 0, Count)>>
    /\ UNCHANGED <<lqBase, lqGiven, lqTodo>>

LqNext == Introsort \/ \E k \in LqKeys : Bsearch(k)

LqSpec == LqInit /\ [][LqNext]_lqVars

-----------------------------------------------------------------------------
\* The positions some range that is still to do will put in order.
Open(i, j) == \E k \in DOMAIN lqTodo : {i, j} \subseteq lqTodo[k].lo .. lqTodo[k].hi

\* Whatever the array, the threshold and the depth limit: no element is lost or
\* made up, and any two positions that are in no common range left to do are in
\* order already - so the array is sorted when the last range is done.
SortsRight ==
    /\ \A v \in {lqGiven[i] : i \in DOMAIN lqGiven} :
          Cardinality({i \in DOMAIN lqBase : lqBase[i] = v}) = Cardinality({i \in DOMAIN lqGiven : lqGiven[i] = v})
    /\ \A i, j \in DOMAIN lqBase : i < j /\ ~Open(i, j) => lqBase[i] <= lqBase[j]

\* bsearch on the sorted array finds a key that is there, and only that.
FindsRight ==
    lqFound # <<>> => IF lqFound[2] = -1 THEN \A i \in DOMAIN lqBase : lqBase[i] # lqFound[1]
                      ELSE lqBase[lqFound[2]] = lqFound[1]

-----------------------------------------------------------------------------
(***************************************************************************)
(* userspace/hadron-libc/core/src/env.rs: the environment array. An entry is a   *)
(* sequence of characters "NAME=value", as the kernel passed it or as setenv made  *)
(* it; leMap is the environment as POSIX describes it.                             *)
(***************************************************************************)
CONSTANTS
    LeStart,        \* arrays the kernel may pass
    LeNames, LeValues,
    LeMaxEnv,       \* MAX_ENV
    LeCalls         \* bound: calls

VARIABLES
    leEntries,  \* ENVIRON up to the null pointer
    leMap,      \* name -> <<value>> or <<>>
    leRet,      \* the last return value
    leLeft

leVars == <<leEntries, leMap, leRet, leLeft>>

Entry(name, value) == name \o <<"=">> \o value

\* strncmp(entry, name, len) = 0 and then '='.
Matches(entry, name) == IsPrefix(name \o <<"=">>, entry)

FirstMatch(name) ==
    IF \E i \in DOMAIN leEntries : Matches(leEntries[i], name)
    THEN CHOOSE i \in DOMAIN leEntries : Matches(leEntries[i], name) /\ \A j \in 1 .. i - 1 : ~Matches(leEntries[j], name)
    ELSE 0

Getenv(name) ==
    LET i == FirstMatch(name)
    IN  IF name = <<>> \/ i = 0 THEN <<>> ELSE <<SubSeq(leEntries[i], Len(name) + 2, Len(leEntries[i]))>>

\* init_environ takes at most MAX_ENV entries.
LeInit ==
    /\ \E a \in LeStart : leEntries = SubSeq(a, 1, IF Len(a) < LeMaxEnv THEN Len(a) ELSE LeMaxEnv)
    /\ leMap = [n \in LeNames |-> Getenv(n)]
    /\ leRet = 0 /\ leLeft = LeCalls

Setenv(name, value, overwrite) ==
    LET i == FirstMatch(name)
    IN  /\ leLeft > 0 /\ leLeft' = leLeft - 1
        /\ \/ /\ "=" \in ToSet(name)
              /\ leRet' = -1 /\ UNCHANGED <<leEntries, leMap>>
           \/ /\ "=" \notin ToSet(name) /\ i # 0 /\ ~overwrite
              /\ leRet' = 0 /\ UNCHANGED <<leEntries, leMap>>
           \/ /\ "=" \notin ToSet(name) /\ i # 0 /\ overwrite
              /\ leEntries' = [leEntries EXCEPT ![i] = Entry(name, value)]
              /\ leMap' = [leMap EXCEPT ![name] = <<value>>] /\ leRet' = 0
           \/ /\ "=" \notin ToSet(name) /\ i = 0 /\ Len(leEntries) < LeMaxEnv
              /\ leEntries' = Append(leEntries, Entry(name, value))
              /\ leMap' = [leMap EXCEPT ![name] = <<value>>] /\ leRet' = 0
           \/ /\ "=" \notin ToSet(name)     \* ENOMEM: the array is full, or malloc fails
              /\ i # 0 => overwrite
              /\ leRet' = -1 /\ UNCHANGED <<leEntries, leMap>>

Unset(name) == SelectSeq(leEntries, LAMBDA e : ~Matches(e, name))

Unsetenv(name) ==
    /\ leLeft > 0 /\ leLeft' = leLeft - 1
    /\ leEntries' = Unset(name)
    /\ leMap' = [leMap EXCEPT ![name] = <<>>] /\ leRet' = 0

LeNext ==
    \/ \E n \in LeNames, v \in LeValues, o \in BOOLEAN : Setenv(n, v, o)
    \/ \E n \in LeNames : Unsetenv(n)

LeSpec == LeInit /\ [][LeNext]_leVars

-----------------------------------------------------------------------------
\* getenv returns what the calls so far make of the environment: a name that is
\* the beginning of another is not mistaken for it, and a name the kernel passed
\* twice is gone after unsetenv.
EnvironmentRight == \A n \in LeNames : "=" \notin ToSet(n) => Getenv(n) = leMap[n]

\* The array always has room for its null pointer.
EnvironBounded == Len(leEntries) <= LeMaxEnv

-----------------------------------------------------------------------------
(***************************************************************************)
(* The printf engine of userspace/hadron-libc/core/src/stdio/printf.rs. A format   *)
(* is a sequence of characters; an argument is a word of LpWord values, which %s   *)
(* takes as the address of a string. format_to takes a step per literal character  *)
(* and per conversion.                                                            *)
(***************************************************************************)
CONSTANTS
    LpFormats,      \* formats with their arguments: <<format, args>>
    LpDigit,        \* digit character -> value
    LpUpper,        \* hexadecimal digit character -> its capital
    LpStrings,      \* address -> string
    LpWord,         \* size of an argument (2^64)
    LpSizes         \* buffer sizes given to snprintf

VARIABLES
    lpFmt,
    lpArgs,     \* arguments not taken yet
    lpPos,      \* i
    lpOut,      \* what the writer was given
    lpDir,      \* the directive that was parsed: <<>> or <<directive>>
    lpLast      \* the last conversion: [dir, arg, out]

lpVars == <<lpFmt, lpArgs, lpPos, lpOut, lpDir, lpLast>>

\* fmt.add(i): the character, the terminator, or memory behind it.
LpAt(i) == IF i <= Len(lpFmt) THEN lpFmt[i] ELSE IF i = Len(lpFmt) + 1 THEN "nul" ELSE "beyond"

SkipOver(i, chars) == CHOOSE j \in i .. Len(lpFmt) + 2 : LpAt(j) \notin chars /\ \A k \in i .. j - 1 : LpAt(k) \in chars

LpNumber(i, j) == FoldLeft(LAMBDA acc, k : acc * 10 + LpDigit[LpAt(k)], 0, [n \in 1 .. j - i |-> i + n - 1])

Decimal == {c \in DOMAIN LpDigit : LpDigit[c] < 10}

\* A field of digits or a star at i: [arg, val, next].
Field(i) ==
    IF LpAt(i) = "*" THEN [arg |-> TRUE, val |-> 0, next |-> i + 1]
    ELSE [arg |-> FALSE, val |-> LpNumber(i, SkipOver(i, Decimal)), next |-> SkipOver(i, Decimal)]

\* The directive whose '%' is at i. The precision is -1 when there is none.
Directive(i) ==
    LET f == SkipOver(i + 1, {"-", "0", "+", " ", "#"})
        flags == {LpAt(k) : k \in i + 1 .. f - 1}
        w == Field(f)
        p == IF LpAt(w.next) = "." THEN Field(w.next + 1) ELSE [arg |-> FALSE, val |-> -1, next |-> w.next]
        s == SkipOver(p.next, {"l", "h", "z", "j", "t"})
    IN  [flags |-> IF "-" \in flags THEN flags \ {"0"} ELSE flags, width |-> w, prec |-> p, spec |-> LpAt(s), next |-> s + 1]

\* The precision's star takes its argument before the width's.
Precision(d) == IF d.prec.arg THEN lpArgs[1] ELSE d.prec.val
Width(d) == IF d.width.arg THEN lpArgs[IF d.prec.arg THEN 2 ELSE 1] ELSE d.width.val
Stars(d) == (IF d.width.arg THEN 1 ELSE 0) + (IF d.prec.arg THEN 1 ELSE 0)

\* format_unsigned
DigitChar(v) == CHOOSE c \in DOMAIN LpDigit : LpDigit[c] = v
Digits(v, base) ==
    LET n == CHOOSE k \in 1..LpWord : base^k > v /\ (k = 1 \/ base^(k - 1) <= v)
    IN  [i \in 1..n |-> DigitChar((v \div base^(n - i)) % base)]

\* format_signed: the word as a signed number.
FormatSigned(v, flags) ==
    IF v >= LpWord \div 2 THEN <<"-">> \o Digits(LpWord - v, 10)
    ELSE (IF "+" \in flags THEN <<"+">> ELSE IF " " \in flags THEN <<" ">> ELSE <<>>) \o Digits(v, 10)

Pad(n, c) == [i \in 1..n |-> c]

\* write_padded
Padded(content, width, flags, sign) ==
    LET n == IF width > Len(content) THEN width - Len(content) ELSE 0
    IN  IF "0" \in flags /\ sign /\ content # <<>>
        THEN SubSeq(content, 1, 1) \o Pad(n, "0") \o SubSeq(content, 2, Len(content))
        ELSE IF "-" \in flags THEN content \o Pad(n, " ")
        ELSE Pad(n, IF "0" \in flags THEN "0" ELSE " ") \o content

\* The string at an address, cut to the precision; "(null)" for the null pointer.
Text(address, prec) ==
    LET s == IF address = 0 THEN <<"(", "n", "u", "l", "l", ")">> ELSE LpStrings[address]
    IN  IF prec >= 0 /\ prec < Len(s) THEN SubSeq(s, 1, prec) ELSE s

\* 0x, 0X or 0 in front of a number that is not zero.
Prefix(d, arg) ==
    IF "#" \notin d.flags \/ arg = 0 THEN <<>>
    ELSE CASE d.spec = "x" -> <<"0", "x">> [] d.spec = "X" -> <<"0", "X">> [] OTHER -> <<"0">>

Capital(s) == [i \in DOMAIN s |-> LpUpper[s[i]]]

\* What the conversion of arg writes.
Converted(d, arg, width, prec) ==
    LET noZero == d.flags \ {"0"}
    IN  CASE d.spec \in {"d", "i"} ->
               LET s == FormatSigned(arg, d.flags) IN Padded(s, width, d.flags, s[1] \in {"-", "+", " "})
          [] d.spec = "u" -> Padded(Digits(arg, 10), width, d.flags, FALSE)
          [] d.spec = "x" -> Prefix(d, arg) \o Padded(Digits(arg, 16), width, d.flags, FALSE)
          [] d.spec = "X" -> Prefix(d, arg) \o Padded(Capital(Digits(arg, 16)), width, d.flags, FALSE)
          [] d.spec = "o" -> Prefix(d, arg) \o Padded(Digits(arg, 8), width, d.flags, FALSE)
          [] d.spec = "s" -> Padded(Text(arg, prec), width, noZero, FALSE)
          [] d.spec = "c" -> Padded(<<arg>>, width, noZero, FALSE)
          [] d.spec = "p" -> IF arg = 0 THEN Padded(<<"(", "n", "i", "l", ")">>, width, noZero, FALSE)
                             ELSE <<"0", "x">> \o Digits(arg, 16)

Converts == {"d", "i", "u", "x", "X", "o", "s", "c", "p"}

LpInit ==
    /\ \E f \in LpFormats : lpFmt = f[1] /\ lpArgs = f[2]
    /\ lpPos = 1 /\ lpOut = <<>> /\ lpDir = <<>> /\ lpLast = <<>>

Literal ==
    /\ lpDir = <<>> /\ LpAt(lpPos) \notin {"%", "nul", "beyond"}
    /\ lpOut' = Append(lpOut, LpAt(lpPos)) /\ lpPos' = lpPos + 1
    /\ UNCHANGED <<lpFmt, lpArgs, lpDir, lpLast>>

Parse ==
    /\ lpDir = <<>> /\ LpAt(lpPos) = "%"
    /\ lpDir' = <<Directive(lpPos)>>
    /\ UNCHANGED <<lpFmt, lpArgs, lpPos, lpOut, lpLast>>

Convert(d) ==
    /\ d.spec \in Converts
    /\ LET rest == SubSeq(lpArgs, Stars(d) + 1, Len(lpArgs))
       IN  /\ lpLast' = <<[d EXCEPT !.width.val = Width(d), !.prec.val = Precision(d)], rest[1],
                          Converted(d, rest[1], Width(d), Precision(d))>>
           /\ lpArgs' = Tail(rest)
    /\ lpOut' = lpOut \o lpLast'[3]
    /\ lpPos' = d.next /\ lpDir' = <<>>
    /\ UNCHANGED lpFmt

\* %%, %n (nothing) and anything else (as it stands).
Unconverted(d) ==
    /\ d.spec \notin Converts
    /\ lpOut' = lpOut \o (IF d.spec = "%" THEN <<"%">> ELSE IF d.spec = "n" THEN <<>> ELSE <<"%", d.spec>>)
    /\ lpArgs' = SubSeq(lpArgs, Stars(d) + 1, Len(lpArgs))
    /\ lpPos' = d.next /\ lpDir' = <<>>
    /\ UNCHANGED <<lpFmt, lpLast>>

LpNext == Literal \/ Parse \/ \E i \in DOMAIN lpDir : Convert(lpDir[i]) \/ Unconverted(lpDir[i])

LpSpec == LpInit /\ [][LpNext]_lpVars

\* What snprintf leaves in a buffer of size bytes, and what it returns.
Stored(out, size) ==
    IF size = 0 THEN <<>> ELSE SubSeq(out, 1, IF Len(out) < size - 1 THEN Len(out) ELSE size - 1) \o <<"nul">>

Snprintf(out, size) == [buf |-> Stored(out, size), ret |-> Len(out)]

-----------------------------------------------------------------------------
\* The value a row of characters stands for, in a base: blanks and zeros in
\* front, blanks behind, a sign.
Strip(s) == SelectSeq(s, LAMBDA c : c \notin {" ", "+", "-"})
Value(s, base) == FoldLeft(LAMBDA acc, c : acc * base + LpDigit[c], 0, Strip(s))

\* A number that was converted reads back as the argument, with its sign, and
\* takes the width it was given or what it needs, with blanks or zeros on the
\* side the flags say.
NumbersRight ==
    lpLast # <<>> /\ lpLast[1].spec \in {"d", "u", "x", "o"} /\ "#" \notin lpLast[1].flags =>
        LET d == lpLast[1]
            arg == lpLast[2]
            out == lpLast[3]
            signed == d.spec = "d" /\ arg >= LpWord \div 2
            base == CASE d.spec = "x" -> 16 [] d.spec = "o" -> 8 [] OTHER -> 10
        IN  /\ Value(out, base) = IF signed THEN LpWord - arg ELSE arg
            /\ signed = (\E i \in DOMAIN out : out[i] = "-")
            /\ \A i \in 2 .. Len(out) : out[i] \in {"-", "+"} => \A j \in 1 .. i - 1 : out[j] = " "
            /\ Len(out) >= d.width.val
            /\ Len(out) > d.width.val => \A i \in 2 .. Len(out) : out[i] # " "
            /\ "-" \in d.flags /\ " " \notin d.flags => out[1] # " "
            /\ "-" \notin d.flags => out[Len(out)] # " "

\* A string is never longer than its precision, and at least as wide as its width.
StringsRight ==
    lpLast # <<>> /\ lpLast[1].spec = "s" =>
        /\ Len(lpLast[3]) >= lpLast[1].width.val
        /\ lpLast[1].prec.val >= 0 =>
              Len(lpLast[3]) <= Max({lpLast[1].prec.val, lpLast[1].width.val})

\* A format that ends is read up to its terminator and not further, and every
\* argument it names was taken.
FormatsRead ==
    /\ LpAt(lpPos) # "beyond"
    /\ LpAt(lpPos) = "nul" => lpArgs = <<>>

\* snprintf stays within the buffer, ends it, and returns the length of the whole.
BuffersRight ==
    LpAt(lpPos) = "nul" =>
        \A size \in LpSizes :
            /\ Len(Snprintf(lpOut, size).buf) <= size
            /\ size > 0 => Last(Snprintf(lpOut, size).buf) = "nul"
            /\ Len(lpOut) < size => Snprintf(lpOut, size).buf = Append(lpOut, "nul")
=============================================================================
