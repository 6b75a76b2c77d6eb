---------------------------- MODULE SimplexString ---------------------------
(***************************************************************************)
(* simplex_string.cpp: five functions of string.h, each in two variants.   *)
(* The libgcc one takes pointers as arguments, the simplex one takes them  *)
(* from the lower halves of BND1 and BND2.  An action is the entry of a    *)
(* function or one iteration of its loop.  The thread has MPX on, so that  *)
(* qgetbndl and qsetbndl are reads and writes of its registers (RegStore). *)
(***************************************************************************)
EXTENDS Integers

CONSTANTS MaxAddress, \* addresses are 1 .. MaxAddress; 0 is NULL
          Base,       \* number of values of an unsigned char
          Ints        \* the int arguments of the client

ASSUME MaxAddressAssumption == MaxAddress \in Nat
ASSUME BaseAssumption == Base \in Nat /\ Base > 0
ASSUME IntsAssumption == Ints \subseteq Int

Address == 1 .. MaxAddress
NULL == 0
Byte == 0 .. Base - 1

\* A cursor may stop one after the last byte it uses, or one before: -1 is the
\* address before NULL.
Pointer == -1 .. MaxAddress + 1

TwoBuffers == {"memcmp", "memcpy", "memmove"}
OneBuffer == {"memset", "memchr"}
StringFunctions == TwoBuffers \cup OneBuffer
Variants == {"simplex", "libgcc"}
Loops == {"compare", "forward", "backward", "fill", "search"}

Region(p, n) == p .. p + n - 1

\* A call with the pointers it works on, wherever they come from.
StringCall ==
  [fn : StringFunctions \cup {"none"}, variant : Variants,
   p : Pointer, q : Pointer, c : Int, n : Nat]
NoStringCall == [fn |-> "none", variant |-> "libgcc", p |-> 0, q |-> 0, c |-> 0, n |-> 0]

VARIABLES mem,   \* the bytes of the process
          bnd,   \* the lower halves of BND1 and BND2
          pc,    \* idle, the loop it is in, or returned
          d, s,  \* the cursors: d is s1, ptr or src where there is no other
          len,   \* bytes left
          ret,   \* the answer, once returned
          req,   \* the call
          old    \* the memory when it was made

stringVars == <<mem, bnd, pc, d, s, len, ret, req, old>>

TypeOK ==
  /\ mem \in [Address -> Byte]
  /\ bnd \in [{"BND1", "BND2"} -> Address \cup {NULL}]
  /\ pc \in Loops \cup {"idle", "returned"}
  /\ d \in Pointer /\ s \in Pointer
  /\ len \in 0 .. MaxAddress
  /\ ret \in Pointer
  /\ req \in StringCall
  /\ old \in [Address -> Byte]

Init ==
  /\ mem \in [Address -> Byte]
  /\ bnd = [r \in {"BND1", "BND2"} |-> NULL]
  /\ pc = "idle"
  /\ d = NULL /\ s = NULL
  /\ len = 0
  /\ ret = 0
  /\ req = NoStringCall
  /\ old = mem

\* qsetbndl(reg, (uint64_t)a) by the client.
SetRegister ==
  /\ pc = "idle"
  /\ \E r \in {"BND1", "BND2"}, a \in Address : bnd' = [bnd EXCEPT ![r] = a]
  /\ UNCHANGED <<mem, pc, d, s, len, ret, req, old>>

\* The client uses the answer and goes on.
Resume ==
  /\ pc = "returned"
  /\ pc' = "idle"
  /\ ret' = 0
  /\ req' = NoStringCall
  /\ old' = mem
  /\ UNCHANGED <<mem, bnd, d, s, len>>

-----------------------------------------------------------------------------
\* The client passes buffers that it owns; those of memcpy do not overlap.
Allowed(fn, p, q, n) ==
  /\ Region(p, n) \subseteq Address
  /\ fn \in TwoBuffers => Region(q, n) \subseteq Address
  /\ fn = "memcpy" => Region(p, n) \cap Region(q, n) = {}

\* The call of fn on p, q, c and n enters a loop with cursors dd and ss.
Enter(variant, fn, p, q, c, n, loop, dd, ss) ==
  /\ pc = "idle"
  /\ Allowed(fn, p, q, n)
  /\ req' = [fn |-> fn, variant |-> variant, p |-> p, q |-> q, c |-> c, n |-> n]
  /\ old' = mem
  /\ pc' = loop
  /\ d' = dd /\ s' = ss
  /\ len' = n
  /\ UNCHANGED <<mem, bnd, ret>>

Memcmp(variant, p, q, n) == Enter(variant, "memcmp", p, q, 0, n, "compare", p, q)
Memcpy(variant, p, q, n) == Enter(variant, "memcpy", p, q, 0, n, "forward", p, q)

\* A plausible bug: the direction is chosen the wrong way round.
MemmoveTurned(variant, p, q, n) ==
  \/ p >= q /\ Enter(variant, "memmove", p, q, 0, n, "forward", p, q)
  \/ p < q /\ Enter(variant, "memmove", p, q, 0, n, "backward", p + (n - 1), q + (n - 1))

\* A plausible bug: the backward loop starts one past the buffers.
MemmoveFromEnd(variant, p, q, n) ==
  \/ p < q /\ Enter(variant, "memmove", p, q, 0, n, "forward", p, q)
  \/ p >= q /\ Enter(variant, "memmove", p, q, 0, n, "backward", p + n, q + n)

Memmove(variant, p, q, n) ==
  \/ p < q /\ Enter(variant, "memmove", p, q, 0, n, "forward", p, q)
  \/ p >= q /\ Enter(variant, "memmove", p, q, 0, n, "backward", p + (n - 1), q + (n - 1))

Memset(variant, p, c, n) == Enter(variant, "memset", p, NULL, c, n, "fill", p, NULL)
Memchr(variant, p, c, n) == Enter(variant, "memchr", p, NULL, c, n, "search", p, NULL)

simplex_memcmp(n) == Memcmp("simplex", bnd["BND1"], bnd["BND2"], n)
simplex_memcpy(n) == Memcpy("simplex", bnd["BND1"], bnd["BND2"], n)
simplex_memmove(n) == Memmove("simplex", bnd["BND1"], bnd["BND2"], n)
simplex_memset(c, n) == Memset("simplex", bnd["BND1"], c, n)
simplex_memchr(c, n) == Memchr("simplex", bnd["BND1"], c, n)

libgcc_memcmp(p, q, n) == Memcmp("libgcc", p, q, n)
libgcc_memcpy(p, q, n) == Memcpy("libgcc", p, q, n)
libgcc_memmove(p, q, n) == Memmove("libgcc", p, q, n)
libgcc_memset(p, c, n) == Memset("libgcc", p, c, n)
libgcc_memchr(p, c, n) == Memchr("libgcc", p, c, n)

CallSimplex ==
  \E n \in 0 .. MaxAddress :
    \/ simplex_memcmp(n) \/ simplex_memcpy(n) \/ simplex_memmove(n)
    \/ \E c \in Ints : simplex_memset(c, n) \/ simplex_memchr(c, n)

CallLibgcc ==
  \E n \in 0 .. MaxAddress, p \in Address :
    \/ \E q \in Address :
         libgcc_memcmp(p, q, n) \/ libgcc_memcpy(p, q, n) \/ libgcc_memmove(p, q, n)
    \/ \E c \in Ints : libgcc_memset(p, c, n) \/ libgcc_memchr(p, c, n)

-----------------------------------------------------------------------------
Answer(v) ==
  /\ pc' = "returned"
  /\ ret' = v
  /\ d' = NULL /\ s' = NULL /\ len' = 0
  /\ UNCHANGED <<mem, bnd, req, old>>

\* One more byte is done, and the cursors move by k.
Advance(k) ==
  /\ len' = len - 1
  /\ d' = d + k
  /\ s' = IF req.fn \in TwoBuffers THEN s + k ELSE s
  /\ UNCHANGED <<bnd, pc, ret, req, old>>

Write(a, b) == mem' = [mem EXCEPT ![a] = b]

CompareByte ==
  /\ pc = "compare" /\ len > 0
  /\ \/ /\ mem[d] # mem[s]
        /\ Answer(IF mem[d] < mem[s] THEN -1 ELSE 1)
     \/ /\ mem[d] = mem[s]
        /\ Advance(1)
        /\ UNCHANGED mem

CopyForward ==
  /\ pc = "forward" /\ len > 0
  /\ Write(d, mem[s])
  /\ Advance(1)

CopyBackward ==
  /\ pc = "backward" /\ len > 0
  /\ Write(d, mem[s])
  /\ Advance(-1)

\* A plausible bug: the cursor is not advanced and the loop counts nothing down.
StuckFill ==
  /\ pc = "fill" /\ len > 0
  /\ Write(d, req.c % Base)
  /\ UNCHANGED <<bnd, pc, d, s, len, ret, req, old>>

\* The int is converted to unsigned char.
FillByte ==
  /\ pc = "fill" /\ len > 0
  /\ Write(d, req.c % Base)
  /\ Advance(1)

\* A plausible bug: the answer is the address after the byte found.
SearchSkips ==
  /\ pc = "search" /\ len > 0
  /\ \/ mem[d] = req.c /\ Answer(d + 1)
     \/ mem[d] # req.c /\ Advance(1) /\ UNCHANGED mem

\* The byte is promoted to int: an int outside its range is never found.
SearchByte ==
  /\ pc = "search" /\ len > 0
  /\ \/ mem[d] = req.c /\ Answer(d)
     \/ mem[d] # req.c /\ Advance(1) /\ UNCHANGED mem

LoopEnds ==
  /\ len = 0
  /\ \/ pc \in {"compare", "search"} /\ Answer(0)
     \/ /\ pc \in {"forward", "backward", "fill"}
        /\ Answer(IF req.variant = "simplex" THEN bnd["BND1"] ELSE req.p)

LoopStep ==
  CompareByte \/ CopyForward \/ CopyBackward \/ FillByte \/ SearchByte \/ LoopEnds

Next == SetRegister \/ CallSimplex \/ CallLibgcc \/ LoopStep \/ Resume

Spec == Init /\ [][Next]_stringVars

\* A function that has been entered keeps running.
FairSpec == Spec /\ WF_stringVars(LoopStep)

-----------------------------------------------------------------------------
\* What string.h says of a call x made on memory m, of its answer v.
Moved(x, m) ==
  [a \in Address |-> IF a \in Region(x.p, x.n) THEN m[a - x.p + x.q] ELSE m[a]]
Filled(x, m) ==
  [a \in Address |-> IF a \in Region(x.p, x.n) THEN x.c % Base ELSE m[a]]

SameUpTo(x, m, k) == \A i \in 0 .. k - 1 : m[x.p + i] = m[x.q + i]
AbsentUpTo(x, m, k) == \A i \in 0 .. k - 1 : m[x.p + i] # x.c % Base

ComparesAs(x, m, v) ==
  \/ v = 0 /\ SameUpTo(x, m, x.n)
  \/ \E i \in 0 .. x.n - 1 :
       /\ SameUpTo(x, m, i)
       /\ \/ v = -1 /\ m[x.p + i] < m[x.q + i]
          \/ v = 1 /\ m[x.p + i] > m[x.q + i]

FoundAs(x, m, v) ==
  \/ v = NULL /\ AbsentUpTo(x, m, x.n)
  \/ \E i \in 0 .. x.n - 1 :
       AbsentUpTo(x, m, i) /\ m[x.p + i] = x.c % Base /\ v = x.p + i

(* When a function returns, the memory and the answer are what string.h says, *)
(* for overlapping buffers of memmove too, and whichever variant was called:  *)
(* a simplex function does to the buffers in BND1 and BND2 what its libgcc    *)
(* twin does to its arguments, and nothing to any other byte.  One call is    *)
(* left out, because it is not so there: memchr of an int outside the range   *)
(* of a byte, which string.h converts and the code does not (NeverFound).     *)
AsStringH ==
  pc = "returned" =>
    /\ req.fn \in {"memcpy", "memmove"} => mem = Moved(req, old) /\ ret = req.p
    /\ req.fn = "memset" => mem = Filled(req, old) /\ ret = req.p
    /\ req.fn = "memcmp" => mem = old /\ ComparesAs(req, old, ret)
    /\ req.fn = "memchr" => mem = old /\ (req.c \in Byte => FoundAs(req, old, ret))

(* No byte outside the caller's buffers is read or written, in either         *)
(* direction, although the backward loop computes its cursors from len - 1    *)
(* before it knows that len is not 0.                                        *)
AccessesInBuffers ==
  pc \in Loops /\ len > 0 =>
    /\ d \in Region(req.p, req.n)
    /\ req.fn \in TwoBuffers => s \in Region(req.q, req.n)

(* Every call returns: each loop counts down to 0 and stops there.            *)
StringCallsReturn == pc \in Loops ~> pc = "returned"

-----------------------------------------------------------------------------
\* The inductive invariant behind these properties: what each loop has done.
Done == req.n - len

\* The first k bytes, or all but the first k, are moved; the first k are filled.
MovedUpTo(x, m, k) ==
  [a \in Address |-> IF a \in x.p .. x.p + k - 1 THEN m[a - x.p + x.q] ELSE m[a]]
MovedFrom(x, m, k) ==
  [a \in Address |-> IF a \in x.p + k .. x.p + x.n - 1 THEN m[a - x.p + x.q] ELSE m[a]]
FilledUpTo(x, m, k) ==
  [a \in Address |-> IF a \in x.p .. x.p + k - 1 THEN x.c % Base ELSE m[a]]

InLoop ==
  pc \in Loops =>
    /\ Allowed(req.fn, req.p, req.q, req.n)
    /\ len <= req.n
    /\ req.variant = "simplex" => bnd["BND1"] = req.p

InCompare ==
  pc = "compare" =>
    /\ req.fn = "memcmp"
    /\ d = req.p + Done /\ s = req.q + Done
    /\ mem = old
    /\ SameUpTo(req, old, Done)

InForward ==
  pc = "forward" =>
    /\ req.fn = "memcpy" \/ (req.fn = "memmove" /\ req.p < req.q)
    /\ d = req.p + Done /\ s = req.q + Done
    /\ mem = MovedUpTo(req, old, Done)

InBackward ==
  pc = "backward" =>
    /\ req.fn = "memmove" /\ req.p >= req.q
    /\ d = req.p + len - 1 /\ s = req.q + len - 1
    /\ mem = MovedFrom(req, old, len)

InFill ==
  pc = "fill" =>
    /\ req.fn = "memset"
    /\ d = req.p + Done
    /\ mem = FilledUpTo(req, old, Done)

\* The byte is compared with the int as it is.
UnmatchedUpTo(x, m, k) == \A i \in 0 .. k - 1 : m[x.p + i] # x.c

InSearch ==
  pc = "search" =>
    /\ req.fn = "memchr"
    /\ d = req.p + Done
    /\ mem = old
    /\ UnmatchedUpTo(req, old, Done)

\* Where the code deviates from string.h: memchr answers NULL to every int outside
\* the range of a byte, although the byte it converts to may be in the buffer.
NeverFound == pc = "returned" /\ req.fn = "memchr" /\ req.c \notin Byte => ret = NULL

InReturned == AsStringH /\ NeverFound

StringInv ==
  InLoop /\ InCompare /\ InForward /\ InBackward /\ InFill /\ InSearch /\ InReturned
=============================================================================
