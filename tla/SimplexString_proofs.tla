------------------------ MODULE SimplexString_proofs ------------------------
(***************************************************************************)
(* Theorems about SimplexString for memories of any size, bytes of any     *)
(* width and any arguments.                                                *)
(***************************************************************************)
EXTENDS SimplexString, TLAPS

LEMMA Constants == MaxAddress \in Nat /\ Base \in Nat /\ Base > 0 /\ Ints \subseteq Int
  BY MaxAddressAssumption, BaseAssumption, IntsAssumption

\* The conversion of an int that is a byte changes nothing.
LEMMA ByteOf == \A c \in Byte : c % Base = c
  BY Constants DEF Byte

\* What the client passes gives cursors that are pointers.
LEMMA AllowedBounds ==
  ASSUME NEW fn, NEW p \in Address \cup {NULL}, NEW q \in Address \cup {NULL},
         NEW n \in 0 .. MaxAddress, Allowed(fn, p, q, n)
  PROVE  /\ p + n <= MaxAddress + 1
         /\ fn \in TwoBuffers => q + n <= MaxAddress + 1
<1>1. ASSUME NEW a \in 0 .. MaxAddress, Region(a, n) \subseteq Address
      PROVE  a + n <= MaxAddress + 1
  <2>1. CASE n = 0
    BY <2>1, Constants
  <2>2. CASE n > 0
    <3>1. a + n - 1 \in Region(a, n)
      BY <2>2, Constants DEF Region
    <3> QED  BY <3>1, <1>1, Constants DEF Address
  <2> QED  BY <2>1, <2>2, Constants
<1>2. p \in 0 .. MaxAddress /\ q \in 0 .. MaxAddress
  BY Constants DEF Address, NULL
<1> QED  BY <1>1, <1>2 DEF Allowed

-----------------------------------------------------------------------------
\* The calls: every function is entered with its loop's invariant.

\* Entering keeps the types, if the cursors are pointers.
LEMMA EnterType ==
  ASSUME TypeOK, NEW variant \in Variants, NEW fn \in StringFunctions,
         NEW p \in Address \cup {NULL}, NEW q \in Address \cup {NULL},
         NEW c \in Int, NEW n \in 0 .. MaxAddress, NEW loop \in Loops,
         NEW dd \in Pointer, NEW ss \in Pointer,
         Enter(variant, fn, p, q, c, n, loop, dd, ss)
  PROVE  TypeOK'
<1>1. p \in Pointer /\ q \in Pointer /\ n \in Nat
  BY Constants DEF Address, NULL, Pointer
<1> QED  BY <1>1 DEF TypeOK, Enter, StringCall

LEMMA Names ==
  /\ "memcmp" \in StringFunctions /\ "memcpy" \in StringFunctions
  /\ "memmove" \in StringFunctions /\ "memset" \in StringFunctions
  /\ "memchr" \in StringFunctions
  /\ "compare" \in Loops /\ "forward" \in Loops /\ "backward" \in Loops
  /\ "fill" \in Loops /\ "search" \in Loops
  /\ NULL \in Address \cup {NULL}
  BY DEF StringFunctions, TwoBuffers, OneBuffer, Loops

\* Every loop but the one entered is left out of the invariant.
LEMMA EnterInLoop ==
  ASSUME TypeOK, NEW variant \in Variants, NEW fn \in StringFunctions,
         NEW p \in Address \cup {NULL}, NEW q \in Address \cup {NULL},
         NEW c \in Int, NEW n \in 0 .. MaxAddress, NEW loop \in Loops, NEW dd, NEW ss,
         variant = "simplex" => bnd["BND1"] = p,
         Enter(variant, fn, p, q, c, n, loop, dd, ss)
  PROVE  /\ InLoop' /\ InReturned'
         /\ req'.fn = fn /\ req'.p = p /\ req'.q = q /\ req'.n = n /\ req'.c = c
         /\ len' = n /\ Done' = 0 /\ d' = dd /\ s' = ss /\ mem' = old' /\ pc' = loop
         /\ mem' \in [Address -> Byte]
<1>1. n \in Int
  BY Constants
<1> QED  BY <1>1 DEF TypeOK, Enter, InLoop, InReturned, AsStringH, NeverFound, Done, Loops

LEMMA MemcmpEnters ==
  ASSUME TypeOK, NEW variant \in Variants,
         NEW p \in Address \cup {NULL}, NEW q \in Address \cup {NULL},
         NEW n \in 0 .. MaxAddress,
         variant = "simplex" => bnd["BND1"] = p,
         Memcmp(variant, p, q, n)
  PROVE  TypeOK' /\ StringInv'
<1>1. p \in Pointer /\ q \in Pointer /\ p \in Int /\ q \in Int /\ 0 \in Int
  BY Constants DEF Address, NULL, Pointer
<1>2. Enter(variant, "memcmp", p, q, 0, n, "compare", p, q)
  BY DEF Memcmp
<1>3. TypeOK'
  BY <1>1, <1>2, Names, EnterType
<1>4. /\ InLoop' /\ InReturned' /\ pc' = "compare" /\ req'.fn = "memcmp"
      /\ req'.p = p /\ req'.q = q /\ Done' = 0 /\ d' = p /\ s' = q /\ mem' = old'
  BY <1>1, <1>2, Names, EnterInLoop
<1>5. InCompare'
  BY <1>1, <1>4 DEF InCompare, SameUpTo
<1> QED  BY <1>3, <1>4, <1>5 DEF StringInv, InForward, InBackward, InFill, InSearch

\* A forward copy of nothing yet.
LEMMA ForwardEnters ==
  ASSUME TypeOK, NEW variant \in Variants, NEW fn \in {"memcpy", "memmove"},
         NEW p \in Address \cup {NULL}, NEW q \in Address \cup {NULL},
         NEW n \in 0 .. MaxAddress,
         variant = "simplex" => bnd["BND1"] = p,
         fn = "memcpy" \/ p < q,
         Enter(variant, fn, p, q, 0, n, "forward", p, q)
  PROVE  TypeOK' /\ StringInv'
<1>1. p \in Pointer /\ q \in Pointer /\ p \in Int /\ q \in Int /\ 0 \in Int
  BY Constants DEF Address, NULL, Pointer
<1>3. TypeOK'
  BY <1>1, Names, EnterType
<1>4. /\ InLoop' /\ InReturned' /\ pc' = "forward" /\ req'.fn = fn
      /\ req'.p = p /\ req'.q = q /\ Done' = 0 /\ d' = p /\ s' = q /\ mem' = old'
      /\ mem' \in [Address -> Byte]
  BY <1>1, Names, EnterInLoop
<1>5. mem' = MovedUpTo(req', old', 0)
  BY <1>1, <1>4 DEF MovedUpTo
<1>6. InForward'
  BY <1>1, <1>4, <1>5 DEF InForward
<1> QED  BY <1>3, <1>4, <1>6 DEF StringInv, InCompare, InBackward, InFill, InSearch

LEMMA MemmoveEnters ==
  ASSUME TypeOK, NEW variant \in Variants,
         NEW p \in Address \cup {NULL}, NEW q \in Address \cup {NULL},
         NEW n \in 0 .. MaxAddress,
         variant = "simplex" => bnd["BND1"] = p,
         Memmove(variant, p, q, n)
  PROVE  TypeOK' /\ StringInv'
<1>1. p \in 0 .. MaxAddress /\ q \in 0 .. MaxAddress /\ n \in Nat /\ 0 \in Int
  BY Constants DEF Address, NULL
<1>2. CASE p < q /\ Enter(variant, "memmove", p, q, 0, n, "forward", p, q)
  BY <1>2, ForwardEnters
<1>3. CASE p >= q /\ Enter(variant, "memmove", p, q, 0, n, "backward", p + (n - 1), q + (n - 1))
  <2>1. p + n <= MaxAddress + 1 /\ q + n <= MaxAddress + 1
    BY <1>3, AllowedBounds DEF Enter, TwoBuffers
  <2>2. p + (n - 1) \in Pointer /\ q + (n - 1) \in Pointer
    BY <1>1, <2>1, Constants DEF Pointer
  <2>3. TypeOK'
    BY <1>1, <1>3, <2>2, Names, EnterType
  <2>4. /\ InLoop' /\ InReturned' /\ pc' = "backward" /\ req'.fn = "memmove"
        /\ req'.p = p /\ req'.q = q /\ req'.n = n /\ len' = n
        /\ d' = p + (n - 1) /\ s' = q + (n - 1) /\ mem' = old'
        /\ mem' \in [Address -> Byte]
    BY <1>1, <1>3, Names, EnterInLoop
  <2>5. mem' = MovedFrom(req', old', n)
    BY <1>1, <2>4 DEF MovedFrom
  <2>6. InBackward'
    BY <1>1, <1>3, <2>4, <2>5 DEF InBackward
  <2> QED  BY <2>3, <2>4, <2>6 DEF StringInv, InCompare, InForward, InFill, InSearch
<1> QED  BY <1>2, <1>3 DEF Memmove

LEMMA MemsetEnters ==
  ASSUME TypeOK, NEW variant \in Variants,
         NEW p \in Address \cup {NULL}, NEW c \in Int, NEW n \in 0 .. MaxAddress,
         variant = "simplex" => bnd["BND1"] = p,
         Memset(variant, p, c, n)
  PROVE  TypeOK' /\ StringInv'
<1>1. p \in Pointer /\ NULL \in Pointer /\ p \in Int
  BY Constants DEF Address, NULL, Pointer
<1>2. Enter(variant, "memset", p, NULL, c, n, "fill", p, NULL)
  BY DEF Memset
<1>3. TypeOK'
  BY <1>1, <1>2, Names, EnterType
<1>4. /\ InLoop' /\ InReturned' /\ pc' = "fill" /\ req'.fn = "memset"
      /\ req'.p = p /\ Done' = 0 /\ d' = p /\ mem' = old'
      /\ mem' \in [Address -> Byte]
  BY <1>2, Names, EnterInLoop
<1>5. mem' = FilledUpTo(req', old', 0)
  BY <1>1, <1>4 DEF FilledUpTo
<1>6. InFill'
  BY <1>1, <1>4, <1>5 DEF InFill
<1> QED  BY <1>3, <1>4, <1>6 DEF StringInv, InCompare, InForward, InBackward, InSearch

LEMMA MemchrEnters ==
  ASSUME TypeOK, NEW variant \in Variants,
         NEW p \in Address \cup {NULL}, NEW c \in Int, NEW n \in 0 .. MaxAddress,
         variant = "simplex" => bnd["BND1"] = p,
         Memchr(variant, p, c, n)
  PROVE  TypeOK' /\ StringInv'
<1>1. p \in Pointer /\ NULL \in Pointer /\ p \in Int
  BY Constants DEF Address, NULL, Pointer
<1>2. Enter(variant, "memchr", p, NULL, c, n, "search", p, NULL)
  BY DEF Memchr
<1>3. TypeOK'
  BY <1>1, <1>2, Names, EnterType
<1>4. /\ InLoop' /\ InReturned' /\ pc' = "search" /\ req'.fn = "memchr"
      /\ req'.p = p /\ Done' = 0 /\ d' = p /\ mem' = old'
  BY <1>2, Names, EnterInLoop
<1>5. InSearch'
  BY <1>1, <1>4 DEF InSearch, UnmatchedUpTo
<1> QED  BY <1>3, <1>4, <1>5 DEF StringInv, InCompare, InForward, InBackward, InFill

-----------------------------------------------------------------------------
\* The loops.

\* In a loop with a byte left, byte Done of each buffer is in the memory.
LEMMA InLoopFacts ==
  ASSUME TypeOK, InLoop, pc \in Loops
  PROVE  /\ req.p \in Int /\ req.q \in Int /\ req.n \in Nat /\ req.c \in Int
         /\ len \in Nat /\ Done \in Nat /\ len = req.n - Done
         /\ \A i \in 0 .. req.n - 1 : req.p + i \in Address
         /\ req.fn \in TwoBuffers =>
              \A i \in 0 .. req.n - 1 : req.q + i \in Address
<1>1. /\ req.p \in Int /\ req.q \in Int /\ req.n \in Nat /\ req.c \in Int
      /\ len \in Nat /\ len <= req.n
  BY Constants DEF TypeOK, InLoop, StringCall, Pointer
<1>2. ASSUME NEW a \in Int, Region(a, req.n) \subseteq Address
      PROVE  \A i \in 0 .. req.n - 1 : a + i \in Address
  BY <1>1, <1>2 DEF Region
<1> QED  BY <1>1, <1>2 DEF InLoop, Allowed, Done

\* A returning function leaves the loops.
LEMMA AnswerInv ==
  ASSUME TypeOK, pc \in Loops, NEW v \in Pointer, Answer(v), InReturned'
  PROVE  TypeOK' /\ StringInv'
<1>1. 0 \in Pointer /\ 0 \in 0 .. MaxAddress
  BY Constants DEF Pointer
<1>2. TypeOK'
  BY <1>1 DEF TypeOK, Answer, NULL
<1> QED  BY <1>2 DEF Answer, StringInv, InLoop, InCompare, InForward, InBackward,
                     InFill, InSearch, Loops

LEMMA AdvanceType ==
  ASSUME TypeOK, NEW k \in Int, Advance(k), len > 0,
         d + k \in Pointer, req.fn \in TwoBuffers => s + k \in Pointer,
         mem' \in [Address -> Byte]
  PROVE  TypeOK'
<1>1. len - 1 \in 0 .. MaxAddress
  BY Constants DEF TypeOK
<1> QED  BY <1>1 DEF TypeOK, Advance

\* One byte more is done and the rest of the call is as it was.
LEMMA AdvanceInLoop ==
  ASSUME TypeOK, InLoop, pc \in Loops, NEW k, Advance(k), len > 0
  PROVE  /\ InLoop' /\ InReturned' /\ pc' = pc /\ req' = req /\ old' = old
         /\ Done' = Done + 1 /\ len' = len - 1 /\ d' = d + k
         /\ req.fn \in TwoBuffers => s' = s + k
<1>1. len \in Int /\ req.n \in Int
  BY InLoopFacts
<1>2. Done' = Done + 1
  BY <1>1 DEF Advance, Done
<1>3. InLoop'
  BY <1>1 DEF Advance, InLoop
<1> QED  BY <1>2, <1>3 DEF Advance, InReturned, AsStringH, NeverFound, Loops

LEMMA CompareStep ==
  ASSUME TypeOK, StringInv, CompareByte
  PROVE  TypeOK' /\ StringInv'
<1>1. /\ pc = "compare" /\ pc \in Loops /\ len > 0
      /\ InLoop /\ InCompare /\ req.fn = "memcmp" /\ req.fn \in TwoBuffers
  BY DEF CompareByte, StringInv, InCompare, Loops, TwoBuffers
<1>2. /\ req.p \in Int /\ req.q \in Int /\ req.n \in Nat /\ Done \in 0 .. req.n - 1
      /\ req.p + Done \in Address /\ req.q + Done \in Address
  BY <1>1, InLoopFacts
<1>3. /\ d = req.p + Done /\ s = req.q + Done /\ mem = old
      /\ SameUpTo(req, old, Done)
  BY <1>1 DEF InCompare
<1>4. CASE mem[d] # mem[s] /\ Answer(IF mem[d] < mem[s] THEN -1 ELSE 1)
  <2> DEFINE v == IF mem[d] < mem[s] THEN -1 ELSE 1
  <2>1. v \in Pointer
    BY Constants DEF Pointer
  <2>2. mem[d] \in Int /\ mem[s] \in Int
    BY <1>2, <1>3, Constants DEF TypeOK, Byte
  <2>3. \/ v = -1 /\ old[req.p + Done] < old[req.q + Done]
        \/ v = 1 /\ old[req.p + Done] > old[req.q + Done]
    BY <1>3, <1>4, <2>2
  <2>4. ComparesAs(req, old, v)
    BY <1>2, <1>3, <2>3 DEF ComparesAs
  <2>5. InReturned'
    BY <1>1, <1>3, <1>4, <2>4 DEF InReturned, AsStringH, NeverFound, Answer
  <2> QED  BY <1>1, <1>4, <2>1, <2>5, AnswerInv
<1>5. CASE mem[d] = mem[s] /\ Advance(1) /\ UNCHANGED mem
  <2>1. d + 1 \in Pointer /\ s + 1 \in Pointer
    BY <1>2, <1>3, Constants DEF Address, Pointer
  <2>2. TypeOK'
    BY <1>1, <1>5, <2>1, AdvanceType DEF TypeOK
  <2>3. /\ InLoop' /\ InReturned' /\ pc' = pc /\ req' = req /\ old' = old
        /\ Done' = Done + 1 /\ d' = d + 1 /\ s' = s + 1
    BY <1>1, <1>5, AdvanceInLoop
  <2>4. SameUpTo(req, old, Done + 1)
    BY <1>2, <1>3, <1>5 DEF SameUpTo
  <2>5. InCompare'
    BY <1>1, <1>2, <1>3, <1>5, <2>3, <2>4 DEF InCompare
  <2> QED  BY <1>1, <2>2, <2>3, <2>5 DEF StringInv, InForward, InBackward, InFill, InSearch
<1> QED  BY <1>4, <1>5 DEF CompareByte

\* The byte read has not been written, wherever the buffers overlap.
LEMMA ForwardStep ==
  ASSUME TypeOK, StringInv, CopyForward
  PROVE  TypeOK' /\ StringInv'
<1>1. /\ pc = "forward" /\ pc \in Loops /\ len > 0 /\ Advance(1) /\ Write(d, mem[s])
      /\ InLoop /\ InForward /\ req.fn \in TwoBuffers
  BY DEF CopyForward, StringInv, InForward, Loops, TwoBuffers
<1>2. /\ req.p \in Int /\ req.q \in Int /\ req.n \in Nat /\ Done \in 0 .. req.n - 1
      /\ req.p + Done \in Address /\ req.q + Done \in Address
  BY <1>1, InLoopFacts
<1>3. /\ d = req.p + Done /\ s = req.q + Done
      /\ mem = MovedUpTo(req, old, Done)
      /\ req.fn = "memcpy" \/ req.p < req.q
  BY <1>1 DEF InForward
<1>4. s \notin req.p .. req.p + Done - 1
  <2>1. CASE req.p < req.q
    BY <1>2, <1>3, <2>1
  <2>2. CASE req.fn = "memcpy"
    <3>1. Region(req.p, req.n) \cap Region(req.q, req.n) = {}
      BY <1>1, <2>2 DEF InLoop, Allowed
    <3>2. s \in Region(req.q, req.n)
      BY <1>2, <1>3 DEF Region
    <3>3. req.p .. req.p + Done - 1 \subseteq Region(req.p, req.n)
      BY <1>2 DEF Region
    <3> QED  BY <3>1, <3>2, <3>3
  <2> QED  BY <1>3, <2>1, <2>2
<1>5. mem[s] = old[req.q + Done] /\ mem[s] \in Byte
  BY <1>2, <1>3, <1>4 DEF MovedUpTo, TypeOK
<1>6. mem' = [mem EXCEPT ![d] = old[req.q + Done]]
  BY <1>1, <1>5 DEF Write
<1>7. mem' = MovedUpTo(req, old, Done + 1)
  <2>1. mem' = [a \in Address |-> IF a = d THEN old[req.q + Done] ELSE mem[a]]
    BY <1>6 DEF TypeOK
  <2>2. ASSUME NEW a \in Address
        PROVE  (IF a = d THEN old[req.q + Done] ELSE mem[a]) =
               (IF a \in req.p .. req.p + (Done + 1) - 1 THEN old[a - req.p + req.q] ELSE old[a])
    <3>1. a \in Int
      BY <2>2 DEF Address
    <3>2. mem[a] = IF a \in req.p .. req.p + Done - 1 THEN old[a - req.p + req.q] ELSE old[a]
      BY <1>3, <2>2 DEF MovedUpTo
    <3>3. CASE a = d
      BY <1>2, <1>3, <3>1, <3>3
    <3>4. CASE a # d
      <4>1. a \in req.p .. req.p + (Done + 1) - 1 <=> a \in req.p .. req.p + Done - 1
        BY <1>2, <1>3, <3>1, <3>4
      <4> QED  BY <3>2, <3>4, <4>1
    <3> QED  BY <3>3, <3>4
  <2> QED  BY <2>1, <2>2 DEF MovedUpTo
<1>8. d + 1 \in Pointer /\ s + 1 \in Pointer
  BY <1>2, <1>3, Constants DEF Address, Pointer
<1>9. mem' \in [Address -> Byte]
  BY <1>1, <1>5 DEF Write, TypeOK
<1>10. TypeOK'
  BY <1>1, <1>8, <1>9, AdvanceType
<1>11. /\ InLoop' /\ InReturned' /\ pc' = pc /\ req' = req /\ old' = old
       /\ Done' = Done + 1 /\ d' = d + 1 /\ s' = s + 1
  BY <1>1, AdvanceInLoop
<1>12. d' = req.p + (Done + 1) /\ s' = req.q + (Done + 1)
  BY <1>2, <1>3, <1>11
<1>13. InForward'
  BY <1>1, <1>7, <1>11, <1>12 DEF InForward
<1> QED  BY <1>1, <1>10, <1>11, <1>13 DEF StringInv, InCompare, InBackward, InFill, InSearch

LEMMA BackwardStep ==
  ASSUME TypeOK, StringInv, CopyBackward
  PROVE  TypeOK' /\ StringInv'
<1>1. /\ pc = "backward" /\ pc \in Loops /\ len > 0 /\ Advance(-1) /\ Write(d, mem[s])
      /\ InLoop /\ InBackward /\ req.fn \in TwoBuffers
  BY DEF CopyBackward, StringInv, InBackward, Loops, TwoBuffers
<1>2. /\ req.p \in Int /\ req.q \in Int /\ req.n \in Nat
      /\ len \in Nat /\ len - 1 \in 0 .. req.n - 1
      /\ req.p + (len - 1) \in Address /\ req.q + (len - 1) \in Address
  BY <1>1, InLoopFacts
<1>3. /\ d = req.p + len - 1 /\ s = req.q + len - 1
      /\ mem = MovedFrom(req, old, len)
      /\ req.fn = "memmove" /\ req.p >= req.q
  BY <1>1 DEF InBackward
<1>4. /\ s \notin req.p + len .. req.p + req.n - 1
      /\ d = req.p + (len - 1) /\ s = req.q + (len - 1)
  BY <1>2, <1>3
<1>5. mem[s] = old[s] /\ mem[s] \in Byte
  BY <1>2, <1>3, <1>4 DEF MovedFrom, TypeOK
<1>6. mem' = [a \in Address |-> IF a = d THEN old[s] ELSE mem[a]]
  BY <1>1, <1>5 DEF Write, TypeOK
<1>7. mem' = MovedFrom(req, old, len - 1)
  <2>1. ASSUME NEW a \in Address
        PROVE  (IF a = d THEN old[s] ELSE mem[a]) =
               (IF a \in req.p + (len - 1) .. req.p + req.n - 1
                THEN old[a - req.p + req.q] ELSE old[a])
    <3>1. a \in Int
      BY <2>1 DEF Address
    <3>2. mem[a] = IF a \in req.p + len .. req.p + req.n - 1
                   THEN old[a - req.p + req.q] ELSE old[a]
      BY <1>3, <2>1 DEF MovedFrom
    <3>3. CASE a = d
      <4>1. a - req.p + req.q = s /\ a \in req.p + (len - 1) .. req.p + req.n - 1
        BY <1>2, <1>4, <3>1, <3>3
      <4> QED  BY <3>3, <4>1
    <3>4. CASE a # d
      <4>1. a \in req.p + (len - 1) .. req.p + req.n - 1
              <=> a \in req.p + len .. req.p + req.n - 1
        BY <1>2, <1>4, <3>1, <3>4
      <4> QED  BY <3>2, <3>4, <4>1
    <3> QED  BY <3>3, <3>4
  <2> QED  BY <1>6, <2>1 DEF MovedFrom
<1>8. d + -1 \in Pointer /\ s + -1 \in Pointer
  BY <1>2, <1>4, Constants DEF Address, Pointer
<1>9. mem' \in [Address -> Byte]
  BY <1>1, <1>5 DEF Write, TypeOK
<1>10. TypeOK'
  BY <1>1, <1>8, <1>9, AdvanceType
<1>11. /\ InLoop' /\ InReturned' /\ pc' = pc /\ req' = req /\ old' = old
       /\ len' = len - 1 /\ d' = d + -1 /\ s' = s + -1
  BY <1>1, AdvanceInLoop
<1>12. d' = req.p + (len - 1) - 1 /\ s' = req.q + (len - 1) - 1
  BY <1>2, <1>4, <1>11
<1>13. InBackward'
  BY <1>1, <1>3, <1>7, <1>11, <1>12 DEF InBackward
<1> QED  BY <1>1, <1>10, <1>11, <1>13 DEF StringInv, InCompare, InForward, InFill, InSearch

LEMMA FillStep ==
  ASSUME TypeOK, StringInv, FillByte
  PROVE  TypeOK' /\ StringInv'
<1>1. /\ pc = "fill" /\ pc \in Loops /\ len > 0 /\ Advance(1) /\ Write(d, req.c % Base)
      /\ InLoop /\ InFill /\ req.fn \notin TwoBuffers
  BY DEF FillByte, StringInv, InFill, Loops, TwoBuffers
<1>2. /\ req.p \in Int /\ req.n \in Nat /\ req.c \in Int /\ Done \in 0 .. req.n - 1
      /\ req.p + Done \in Address
  BY <1>1, InLoopFacts
<1>3. d = req.p + Done /\ mem = FilledUpTo(req, old, Done) /\ req.fn = "memset"
  BY <1>1 DEF InFill
<1>4. req.c % Base \in Byte
  BY <1>2, Constants DEF Byte
<1>5. mem' = [a \in Address |-> IF a = d THEN req.c % Base ELSE mem[a]]
  BY <1>1 DEF Write, TypeOK
<1>6. mem' = FilledUpTo(req, old, Done + 1)
  <2>1. ASSUME NEW a \in Address
        PROVE  (IF a = d THEN req.c % Base ELSE mem[a]) =
               (IF a \in req.p .. req.p + (Done + 1) - 1 THEN req.c % Base ELSE old[a])
    <3>1. a \in Int
      BY <2>1 DEF Address
    <3>2. mem[a] = IF a \in req.p .. req.p + Done - 1 THEN req.c % Base ELSE old[a]
      BY <1>3, <2>1 DEF FilledUpTo
    <3>3. a \in req.p .. req.p + (Done + 1) - 1
            <=> a = d \/ a \in req.p .. req.p + Done - 1
      BY <1>2, <1>3, <3>1
    <3> QED  BY <3>2, <3>3
  <2> QED  BY <1>5, <2>1 DEF FilledUpTo
<1>7. d + 1 \in Pointer
  BY <1>2, <1>3, Constants DEF Address, Pointer
<1>8. mem' \in [Address -> Byte]
  BY <1>1, <1>4 DEF Write, TypeOK
<1>9. TypeOK'
  BY <1>1, <1>7, <1>8, AdvanceType
<1>10. /\ InLoop' /\ InReturned' /\ pc' = pc /\ req' = req /\ old' = old
       /\ Done' = Done + 1 /\ d' = d + 1
  BY <1>1, AdvanceInLoop
<1>11. d' = req.p + (Done + 1)
  BY <1>2, <1>3, <1>10
<1>12. InFill'
  BY <1>3, <1>6, <1>10, <1>11 DEF InFill
<1> QED  BY <1>1, <1>9, <1>10, <1>12 DEF StringInv, InCompare, InForward, InBackward, InSearch

LEMMA SearchStep ==
  ASSUME TypeOK, StringInv, SearchByte
  PROVE  TypeOK' /\ StringInv'
<1>1. /\ pc = "search" /\ pc \in Loops /\ len > 0
      /\ InLoop /\ InSearch /\ req.fn = "memchr" /\ req.fn \notin TwoBuffers
  BY DEF SearchByte, StringInv, InSearch, Loops, TwoBuffers
<1>2. /\ req.p \in Int /\ req.n \in Nat /\ Done \in 0 .. req.n - 1
      /\ req.p + Done \in Address
  BY <1>1, InLoopFacts
<1>3. d = req.p + Done /\ mem = old /\ UnmatchedUpTo(req, old, Done)
  BY <1>1 DEF InSearch
<1>4. d \in Pointer /\ d + 1 \in Pointer
  BY <1>2, <1>3, Constants DEF Address, Pointer
<1>5. CASE mem[d] = req.c /\ Answer(d)
  <2>1. req.c \in Byte
    BY <1>2, <1>3, <1>5 DEF TypeOK
  <2>2. FoundAs(req, old, d)
    BY <1>2, <1>3, <1>5, <2>1, ByteOf DEF FoundAs, AbsentUpTo, UnmatchedUpTo
  <2>3. InReturned'
    BY <1>1, <1>3, <1>5, <2>1, <2>2 DEF InReturned, AsStringH, NeverFound, Answer
  <2> QED  BY <1>1, <1>4, <1>5, <2>3, AnswerInv
<1>6. CASE mem[d] # req.c /\ Advance(1) /\ UNCHANGED mem
  <2>1. TypeOK'
    BY <1>1, <1>4, <1>6, AdvanceType DEF TypeOK
  <2>2. /\ InLoop' /\ InReturned' /\ pc' = pc /\ req' = req /\ old' = old
        /\ Done' = Done + 1 /\ d' = d + 1
    BY <1>1, <1>6, AdvanceInLoop
  <2>3. UnmatchedUpTo(req, old, Done + 1)
    BY <1>2, <1>3, <1>6 DEF UnmatchedUpTo
  <2>4. InSearch'
    BY <1>1, <1>2, <1>3, <1>6, <2>2, <2>3 DEF InSearch
  <2> QED  BY <1>1, <2>1, <2>2, <2>4 DEF StringInv, InCompare, InForward, InBackward, InFill
<1> QED  BY <1>5, <1>6 DEF SearchByte

\* With no byte left, what the loop has done is what was asked for.
LEMMA EndStep ==
  ASSUME TypeOK, StringInv, LoopEnds
  PROVE  TypeOK' /\ StringInv'
<1>1. pc \in Loops /\ len = 0 /\ InLoop
  BY DEF LoopEnds, StringInv, Loops
<1>2. Done = req.n /\ req.n \in Nat /\ req.p \in Int
  BY <1>1, InLoopFacts
<1>3. 0 \in Pointer /\ NULL = 0
  BY Constants DEF Pointer, NULL
<1>4. CASE pc = "compare" /\ Answer(0)
  <2>1. mem = old /\ req.fn = "memcmp" /\ ComparesAs(req, old, 0)
    BY <1>2, <1>4 DEF StringInv, InCompare, ComparesAs
  <2>2. InReturned'
    BY <1>4, <2>1 DEF InReturned, AsStringH, NeverFound, Answer
  <2> QED  BY <1>1, <1>3, <1>4, <2>2, AnswerInv
<1>5. CASE pc = "search" /\ Answer(0)
  <2>1. mem = old /\ req.fn = "memchr" /\ UnmatchedUpTo(req, old, req.n)
    BY <1>2, <1>5 DEF StringInv, InSearch
  <2>2. ASSUME req.c \in Byte PROVE FoundAs(req, old, 0)
    BY <1>2, <1>3, <2>1, <2>2, ByteOf DEF FoundAs, AbsentUpTo, UnmatchedUpTo
  <2>3. InReturned'
    BY <1>3, <1>5, <2>1, <2>2 DEF InReturned, AsStringH, NeverFound, Answer
  <2> QED  BY <1>1, <1>3, <1>5, <2>3, AnswerInv
<1>6. CASE /\ pc \in {"forward", "backward", "fill"}
           /\ Answer(IF req.variant = "simplex" THEN bnd["BND1"] ELSE req.p)
  <2>1. Answer(req.p)
    BY <1>1, <1>6 DEF InLoop
  <2>2. req.p \in Pointer
    BY DEF TypeOK, StringCall
  <2>3. /\ req.fn \in {"memcpy", "memmove"} => mem = Moved(req, old)
        /\ req.fn = "memset" => mem = Filled(req, old)
        /\ req.fn \in {"memcpy", "memmove", "memset"}
    <3>1. CASE pc = "forward"
      BY <1>2, <3>1 DEF StringInv, InForward, MovedUpTo, Moved, Region
    <3>2. CASE pc = "backward"
      <4>1. req.fn = "memmove" /\ mem = MovedFrom(req, old, 0) /\ req.p + 0 = req.p
        BY <1>1, <1>2, <3>2 DEF StringInv, InBackward
      <4> QED  BY <4>1 DEF MovedFrom, Moved, Region
    <3>3. CASE pc = "fill"
      BY <1>2, <3>3 DEF StringInv, InFill, FilledUpTo, Filled, Region
    <3> QED  BY <1>6, <3>1, <3>2, <3>3
  <2>4. InReturned'
    BY <2>1, <2>3 DEF InReturned, AsStringH, NeverFound, Answer
  <2> QED  BY <1>1, <2>1, <2>2, <2>4, AnswerInv
<1> QED  BY <1>4, <1>5, <1>6 DEF LoopEnds

-----------------------------------------------------------------------------
\* The invariant and what follows from it.

LEMMA InitInv == Init => TypeOK /\ StringInv
<1> SUFFICES ASSUME Init PROVE TypeOK /\ StringInv
  OBVIOUS
<1>1. NoStringCall \in StringCall /\ NULL \in Pointer /\ 0 \in Pointer /\ 0 \in 0 .. MaxAddress
  BY Constants DEF NoStringCall, StringCall, Variants, Pointer, NULL
<1> QED  BY <1>1 DEF Init, TypeOK, StringInv, InLoop, InCompare, InForward, InBackward,
                     InFill, InSearch, InReturned, AsStringH, NeverFound, Loops

LEMMA OutsideCalls ==
  ASSUME TypeOK, StringInv, SetRegister \/ Resume
  PROVE  TypeOK' /\ StringInv'
<1>1. NoStringCall \in StringCall /\ 0 \in Pointer
  BY Constants DEF NoStringCall, StringCall, Variants, Pointer
<1>2. TypeOK'
  BY <1>1 DEF TypeOK, SetRegister, Resume
<1>3. pc' = "idle"
  BY DEF SetRegister, Resume
<1> QED  BY <1>2, <1>3 DEF StringInv, InLoop, InCompare, InForward, InBackward,
                           InFill, InSearch, InReturned, AsStringH, NeverFound, Loops

LEMMA CallInv ==
  ASSUME TypeOK, StringInv, CallSimplex \/ CallLibgcc
  PROVE  TypeOK' /\ StringInv'
<1> DEFINE P == Address \cup {NULL}
<1>1. ASSUME NEW variant \in Variants, NEW p \in P, NEW q \in P, NEW n \in 0 .. MaxAddress,
             variant = "simplex" => bnd["BND1"] = p,
             \/ Memcmp(variant, p, q, n) \/ Memcpy(variant, p, q, n)
             \/ Memmove(variant, p, q, n)
             \/ \E c \in Ints : Memset(variant, p, c, n) \/ Memchr(variant, p, c, n)
      PROVE  TypeOK' /\ StringInv'
  <2>1. CASE Memcmp(variant, p, q, n)
    BY <1>1, <2>1, MemcmpEnters
  <2>2. CASE Memcpy(variant, p, q, n)
    BY <1>1, <2>2, ForwardEnters DEF Memcpy
  <2>3. CASE Memmove(variant, p, q, n)
    BY <1>1, <2>3, MemmoveEnters
  <2>4. ASSUME NEW c \in Ints, Memset(variant, p, c, n)
        PROVE  TypeOK' /\ StringInv'
    BY <1>1, <2>4, MemsetEnters, Constants
  <2>5. ASSUME NEW c \in Ints, Memchr(variant, p, c, n)
        PROVE  TypeOK' /\ StringInv'
    BY <1>1, <2>5, MemchrEnters, Constants
  <2> QED  BY <1>1, <2>1, <2>2, <2>3, <2>4, <2>5
<1>2. bnd["BND1"] \in P /\ bnd["BND2"] \in P
  BY DEF TypeOK
<1>3. CASE CallSimplex
  <2>1. PICK n \in 0 .. MaxAddress :
          \/ simplex_memcmp(n) \/ simplex_memcpy(n) \/ simplex_memmove(n)
          \/ \E c \in Ints : simplex_memset(c, n) \/ simplex_memchr(c, n)
    BY <1>3 DEF CallSimplex
  <2> QED  BY <1>1, <1>2, <2>1
              DEF simplex_memcmp, simplex_memcpy, simplex_memmove, simplex_memset,
                  simplex_memchr, Variants
<1>4. CASE CallLibgcc
  <2>1. PICK n \in 0 .. MaxAddress, p \in Address :
          \/ \E q \in Address :
               libgcc_memcmp(p, q, n) \/ libgcc_memcpy(p, q, n) \/ libgcc_memmove(p, q, n)
          \/ \E c \in Ints : libgcc_memset(p, c, n) \/ libgcc_memchr(p, c, n)
    BY <1>4 DEF CallLibgcc
  <2> QED  BY <1>1, <2>1
              DEF libgcc_memcmp, libgcc_memcpy, libgcc_memmove, libgcc_memset,
                  libgcc_memchr, Variants
<1> QED  BY <1>3, <1>4

LEMMA NextInv == TypeOK /\ StringInv /\ [Next]_stringVars => TypeOK' /\ StringInv'
<1> SUFFICES ASSUME TypeOK, StringInv, [Next]_stringVars PROVE TypeOK' /\ StringInv'
  OBVIOUS
<1>1. CASE SetRegister \/ Resume
  BY <1>1, OutsideCalls
<1>2. CASE CallSimplex \/ CallLibgcc
  BY <1>2, CallInv
<1>3. CASE LoopStep
  BY <1>3, CompareStep, ForwardStep, BackwardStep, FillStep, SearchStep, EndStep DEF LoopStep
<1>4. CASE UNCHANGED stringVars
  BY <1>4 DEF stringVars, TypeOK, StringInv, InLoop, InCompare, InForward, InBackward,
              InFill, InSearch, InReturned, AsStringH, NeverFound, Done
<1> QED  BY <1>1, <1>2, <1>3, <1>4 DEF Next

(* The state of simplex_string.cpp is well typed, and every loop has done     *)
(* exactly what its counter says.                                            *)
THEOREM StringInvariant == Spec => [](TypeOK /\ StringInv)
  BY InitInv, NextInv, PTL DEF Spec

(* Every reachable state is well typed: no cursor leaves the range of an      *)
(* address, and no byte of memory its own.                                   *)
THEOREM StringTypes == Spec => []TypeOK
  BY StringInvariant, PTL

(* The ten functions of simplex_string.cpp do what string.h says, for buffers *)
(* of every length, wherever they overlap: memset for every int, which it     *)
(* converts to a byte, and memchr for every int that is a byte.  For other    *)
(* ints memchr does not: NeverFound, a part of StringInvariant.               *)
THEOREM StringFunctionsAreCorrect == Spec => []AsStringH
<1>1. StringInv => AsStringH
  BY DEF StringInv, InReturned
<1> QED  BY <1>1, StringInvariant, PTL

\* The invariant keeps the cursors in the buffers of the call.
LEMMA CursorsInBuffers == TypeOK /\ StringInv => AccessesInBuffers
<1> SUFFICES ASSUME TypeOK, StringInv, pc \in Loops, len > 0
             PROVE  /\ d \in Region(req.p, req.n)
                    /\ req.fn \in TwoBuffers => s \in Region(req.q, req.n)
  BY DEF AccessesInBuffers
<1>1. /\ req.p \in Int /\ req.q \in Int /\ req.n \in Nat
      /\ len \in Nat /\ Done \in 0 .. req.n - 1 /\ len = req.n - Done
  BY InLoopFacts DEF StringInv
<1>2. \E i \in 0 .. req.n - 1 :
        d = req.p + i /\ (req.fn \in TwoBuffers => s = req.q + i)
  <2>1. CASE pc = "backward"
    <3>1. d = req.p + (len - 1) /\ s = req.q + (len - 1) /\ len - 1 \in 0 .. req.n - 1
      BY <1>1, <2>1 DEF StringInv, InBackward
    <3> QED  BY <3>1
  <2>2. CASE pc # "backward"
    BY <1>1, <2>2 DEF StringInv, InCompare, InForward, InFill, InSearch, Loops, TwoBuffers
  <2> QED  BY <2>1, <2>2
<1> QED  BY <1>1, <1>2 DEF Region

(* No loop of simplex_string.cpp reads or writes outside the buffers.         *)
THEOREM StringAccesses == Spec => []AccessesInBuffers
  BY CursorsInBuffers, StringInvariant, PTL
=============================================================================
