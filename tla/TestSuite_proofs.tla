-------------------------- MODULE TestSuite_proofs --------------------------
(***************************************************************************)
(* Theorems about TestSuite for words and values of every size and any     *)
(* number of registers.  The suite is a client of the library, so what     *)
(* holds of every client holds of it; what its tests rely on follows from  *)
(* the operations of RegStore that the library's steps are.                *)
(***************************************************************************)
EXTENDS TestSuite, RegStore_proofs

-----------------------------------------------------------------------------
\* The suite is one of the clients of SimplexProcess.

LEMMA SuiteSteps == [SuiteNext]_suiteVars => [Next]_vars
<1>1. MainThread \in Threads
  BY ThreadsAssumption
<1>2. CASE NextLine
  BY <1>1, <1>2 DEF NextLine, ClientStep, Next
<1>3. CASE End
  BY <1>3 DEF End
<1>4. CASE Library
  BY <1>1, <1>4 DEF Library, Next
<1>5. CASE Frames
  BY <1>1, <1>5 DEF Frames, ClientStep, Next
<1>6. CASE UNCHANGED suiteVars
  BY <1>6 DEF suiteVars
<1> QED  BY <1>2, <1>3, <1>4, <1>5, <1>6 DEF SuiteNext

(* The suite makes no call that a client of the library may not make: every   *)
(* theorem about the library is one about the suite.                         *)
THEOREM SuiteIsAClient == SuiteSpec => Spec
  BY SuiteSteps, PTL DEF SuiteSpec, SuiteInit, Spec

-----------------------------------------------------------------------------
\* What a call does to the registers of its thread.

LEMMA CallEffect ==
  ASSUME TypeOK, NEW t \in Threads, ThreadInv(t), ThreadInv(t)', LibraryStep(t),
         call[t].fn \in Accessors \cup Mutators, Reg(t) \in BndRegs, MpxOn(ctx[t])
  PROVE  /\ call' = call /\ MpxOn(ctx'[t]) /\ pc'[t] # "unborn"
         /\ \/ /\ pc'[t] # "idle"
               /\ Presented(ctx'[t]) = Presented(ctx[t])
            \/ /\ pc'[t] = "idle" /\ call[t].fn \in Accessors
               /\ out'[t] = Abstract!Shown(call[t].fn, Presented(ctx[t])[Reg(t)])
               /\ Presented(ctx'[t]) = Presented(ctx[t])
            \/ /\ pc'[t] = "idle" /\ call[t].fn \in Mutators
               /\ Presented(ctx'[t]) =
                    [Presented(ctx[t]) EXCEPT
                       ![Reg(t)] = Abstract!Written(call[t].fn, @, Val(t))]
<1>1. /\ Status[t] = "busy" /\ On[t] = MpxOn(ctx[t]) /\ Store[t] = Presented(ctx[t])
      /\ On'[t] = MpxOn(ctx'[t]) /\ Store'[t] = Presented(ctx'[t])
      /\ Status'[t] = (IF pc'[t] \in {"unborn", "idle"} THEN pc'[t] ELSE "busy")
      /\ pc'[t] \in {"unborn", "idle"} => Reply'[t] = out'[t]
  BY BusyInLibrary DEF Status, On, Store, Reply, Busy
<1>2. call[t].fn \notin Abstract!Switches
  BY DEF Abstract!Switches, Accessors, Mutators
<1>3. CASE UNCHANGED Abstract!storeVars
  BY <1>1, <1>3 DEF Abstract!storeVars
<1>4. CASE Abstract!Read(t)
  <2>1. /\ call[t].fn \in Accessors /\ Abstract!Answer(t, Abstract!Shown(call[t].fn, Store[t][Reg(t)]))
        /\ UNCHANGED <<On, Store>>
    BY <1>1, <1>4 DEF Abstract!Read, Abstract!Readers, Accessors, Reg
  <2>2. /\ Status'[t] = "idle" /\ Reply'[t] = Abstract!Shown(call[t].fn, Store[t][Reg(t)])
        /\ call' = call
    BY <2>1 DEF Abstract!Answer, Status, Reply
  <2> QED  BY <1>1, <2>1, <2>2
<1>5. CASE Abstract!Write(t)
  <2>1. /\ call[t].fn \in Mutators /\ Abstract!Answer(t, Abstract!NoReply)
        /\ UNCHANGED On
        /\ Store' = [Store EXCEPT ![t][Reg(t)] =
                       Abstract!Written(call[t].fn, Store[t][Reg(t)], Val(t))]
    BY <1>1, <1>5 DEF Abstract!Write, Abstract!Writers, Mutators, Reg, Val
  <2>2. Status'[t] = "idle" /\ call' = call
    BY <2>1 DEF Abstract!Answer, Status
  <2>3. Store'[t] = [Store[t] EXCEPT ![Reg(t)] =
                       Abstract!Written(call[t].fn, Store[t][Reg(t)], Val(t))]
    BY <2>1 DEF Store
  <2> QED  BY <1>1, <2>1, <2>2, <2>3
<1>6. CASE Abstract!Reject(t)
  BY <1>6 DEF Abstract!Reject, Reg
<1>7. CASE \/ Abstract!Reset(t) \/ Abstract!Switch(t) \/ Abstract!Refuse(t)
           \/ Abstract!Die(t)
  BY <1>2, <1>7 DEF Abstract!Reset, Abstract!Switch, Abstract!Refuse, Abstract!Die,
                    Abstract!Switches
<1> QED  BY <1>3, <1>4, <1>5, <1>6, <1>7, LibraryActs

\* What the runtime functions answer on a machine that passes the check.
LEMMA RuntimeEffect ==
  ASSUME TypeOK, NEW t \in Threads, ThreadInv(t), ThreadInv(t)', LibraryStep(t),
         call[t].fn \in RuntimeFunctions
  PROVE  /\ call' = call /\ pc'[t] # "unborn"
         /\ check_mpx_support(platform)' = check_mpx_support(platform)
         /\ pc'[t] = "idle" /\ check_mpx_support(platform) => out'[t] = W(1)
<1>1. /\ Status[t] = "busy"
      /\ Status'[t] = (IF pc'[t] \in {"unborn", "idle"} THEN pc'[t] ELSE "busy")
      /\ pc'[t] \in {"unborn", "idle"} => Reply'[t] = out'[t]
  BY BusyInLibrary DEF Status, Reply, Busy
<1>2. call[t].fn \notin Abstract!Readers \cup Abstract!Writers
  BY DEF Abstract!Readers, Abstract!Writers, RuntimeFunctions
<1>3. CASE UNCHANGED Abstract!storeVars
  BY <1>1, <1>3 DEF Abstract!storeVars
<1>4. CASE Abstract!Read(t) \/ Abstract!Write(t) \/ Abstract!Reject(t)
  BY <1>2, <1>4 DEF Abstract!Read, Abstract!Write, Abstract!Reject
<1>5. CASE Abstract!Reset(t) \/ Abstract!Die(t)
  BY <1>1, <1>5 DEF Abstract!Reset, Abstract!Die
<1>6. CASE Abstract!Switch(t)
  <2>1. Abstract!Answer(t, Abstract!True)
    BY <1>6 DEF Abstract!Switch
  <2>2. /\ Status'[t] = "idle" /\ Reply'[t] = W(1) /\ call' = call
        /\ check_mpx_support(platform)' = check_mpx_support(platform)
    BY <2>1 DEF Abstract!Answer, Abstract!True, W, Status, Reply
  <2> QED  BY <1>1, <2>2
<1>7. CASE Abstract!Refuse(t)
  <2>1. ~check_mpx_support(platform) /\ Abstract!Answer(t, Abstract!NoReply)
    BY <1>7 DEF Abstract!Refuse
  <2>2. /\ Status'[t] = "idle" /\ call' = call
        /\ check_mpx_support(platform)' = check_mpx_support(platform)
    BY <2>1 DEF Abstract!Answer, Status
  <2> QED  BY <1>1, <2>1, <2>2
<1> QED  BY <1>3, <1>4, <1>5, <1>6, <1>7, LibraryActs

-----------------------------------------------------------------------------
\* What the scripts have in common.

\* The lines of s are mutators, which assert nothing, and accessors, all of register r.
\* No mutator destroys what an earlier one of them wrote, and what an accessor is
\* expected to answer is what the mutators before it wrote.
Consistent(s, r) ==
  /\ Len(s) \in 1 .. 4 /\ DOMAIN s = 1 .. Len(s)
  /\ \A k \in 1 .. Len(s) :
       /\ s[k].request.reg = r
       /\ \/ s[k].request.fn \in Mutators /\ s[k].asserts = "nothing"
          \/ s[k].request.fn \in Accessors
  /\ \A k \in 1 .. Len(s), a, b \in Word :
       LET h == [lower |-> a, upper |-> b]
           q == s[k].request
       IN  (\A j \in 1 .. k - 1 : Wrote(s[j].request, h)) =>
             /\ q.fn \in Mutators =>
                  \A j \in 1 .. k : Wrote(s[j].request, Abstract!Written(q.fn, h, q.val))
             /\ q.fn \in Accessors =>
                  s[k].expected = Abstract!Shown(q.fn, h) /\ Wrote(q, h)

\* A mutator writes what it is asked to, and a half that it is not asked to write stays.
LEMMA WrittenIs ==
  ASSUME NEW q, q.fn \in Mutators, NEW a, NEW b, NEW h, h = [lower |-> a, upper |-> b]
  PROVE  /\ Wrote(q, Abstract!Written(q.fn, h, q.val))
         /\ q.fn = "setbndl" =>
              Abstract!Written(q.fn, h, q.val) = [lower |-> q.val.lo, upper |-> b]
         /\ q.fn = "setbndu" =>
              Abstract!Written(q.fn, h, q.val) = [lower |-> a, upper |-> q.val.lo]
<1>1. CASE q.fn = "setbndl"
  BY <1>1 DEF Wrote, Abstract!Written
<1>2. CASE q.fn = "setbndu"
  BY <1>2 DEF Wrote, Abstract!Written
<1>3. CASE q.fn = "setbnd"
  BY <1>3 DEF Wrote, Abstract!Written
<1>4. CASE q.fn = "qsetbndl"
  BY <1>4 DEF Wrote, Abstract!Written
<1> QED  BY <1>1, <1>2, <1>3, <1>4 DEF Mutators

LEMMA PairConsistent ==
  ASSUME NEW set \in Mutators, NEW get \in Accessors, NEW r, NEW v, NEW s,
         s = <<Set(set, r, v), Get(get, r, v)>>,
         \A a, b \in Word :
           LET h == [lower |-> a, upper |-> b]
           IN  Wrote([fn |-> set, reg |-> r, val |-> v], h) => v = Abstract!Shown(get, h)
  PROVE  Consistent(s, r)
<1>1. /\ Len(s) = 2 /\ DOMAIN s = 1 .. 2
      /\ s[1].request = [fn |-> set, reg |-> r, val |-> v] /\ s[1].asserts = "nothing"
      /\ s[2].request = [fn |-> get, reg |-> r, val |-> Zero] /\ s[2].expected = v
  BY DEF Set, Get, Line
<1>2. set \notin Accessors /\ get \notin Mutators
  BY DEF Accessors, Mutators
<1>3. ASSUME NEW k \in 1 .. 2, NEW a \in Word, NEW b \in Word, NEW h,
             h = [lower |-> a, upper |-> b],
             \A j \in 1 .. k - 1 : Wrote(s[j].request, h)
      PROVE  LET q == s[k].request
             IN  /\ q.fn \in Mutators =>
                      \A j \in 1 .. k : Wrote(s[j].request, Abstract!Written(q.fn, h, q.val))
                 /\ q.fn \in Accessors =>
                      s[k].expected = Abstract!Shown(q.fn, h) /\ Wrote(q, h)
  <2>1. CASE k = 1
    <3> DEFINE q == s[1].request
    <3>1. q.fn = set /\ q.val = v
      BY <1>1
    <3>2. Wrote(q, Abstract!Written(q.fn, h, q.val))
      <4> HIDE DEF q
      <4> QED  BY <1>3, <3>1, WrittenIs
    <3> QED  BY <1>2, <2>1, <3>1, <3>2
  <2>2. CASE k = 2
    <3>1. Wrote(s[1].request, h)
      BY <1>3, <2>2
    <3>2. v = Abstract!Shown(get, h)
      BY <1>1, <1>3, <3>1
    <3>3. Wrote(s[2].request, h)
      BY <1>1 DEF Wrote, Accessors
    <3> QED  BY <1>1, <1>2, <2>2, <3>2, <3>3
  <2> QED  BY <2>1, <2>2
<1>4. \A k \in 1 .. 2 :
        /\ s[k].request.reg = r
        /\ \/ s[k].request.fn \in Mutators /\ s[k].asserts = "nothing"
           \/ s[k].request.fn \in Accessors
  <2> TAKE k \in 1 .. 2
  <2>1. k = 1 \/ k = 2
    OBVIOUS
  <2> QED  BY <1>1, <2>1
<1> QED  BY <1>1, <1>3, <1>4 DEF Consistent

LEMMA HalvedConsistent ==
  ASSUME NEW r, NEW first \in {"lower", "upper"}, NEW vl, NEW vu
  PROVE  Consistent(Halved(r, first, vl, vu), r)
<1> DEFINE s == Halved(r, first, vl, vu)
           lower == [fn |-> "setbndl", reg |-> r, val |-> W(vl)]
           upper == [fn |-> "setbndu", reg |-> r, val |-> W(vu)]
<1>1. /\ Len(s) = 4 /\ DOMAIN s = 1 .. 4
      /\ s[1].request = (IF first = "lower" THEN lower ELSE upper) /\ s[1].asserts = "nothing"
      /\ s[2].request = (IF first = "lower" THEN upper ELSE lower) /\ s[2].asserts = "nothing"
      /\ s[3].request = [fn |-> "getbndl", reg |-> r, val |-> Zero] /\ s[3].expected = W(vl)
      /\ s[4].request = [fn |-> "getbndu", reg |-> r, val |-> Zero] /\ s[4].expected = W(vu)
  BY DEF Halved, Set, Get, Line
<1>2. ASSUME NEW a, NEW b, NEW h, h = [lower |-> a, upper |-> b]
      PROVE  /\ Wrote(lower, h) <=> a = vl
             /\ Wrote(upper, h) <=> b = vu
             /\ Abstract!Written("setbndl", h, W(vl)) = [lower |-> vl, upper |-> b]
             /\ Abstract!Written("setbndu", h, W(vu)) = [lower |-> a, upper |-> vu]
             /\ Abstract!Shown("getbndl", h) = W(a)
             /\ Abstract!Shown("getbndu", h) = W(b)
  BY <1>2 DEF Wrote, W, Abstract!Written, Abstract!Shown
<1>3. /\ lower.fn = "setbndl" /\ lower.val = W(vl)
      /\ upper.fn = "setbndu" /\ upper.val = W(vu)
  OBVIOUS
<1> HIDE DEF s, lower, upper
<1>4. ASSUME NEW k \in 1 .. 4, NEW a \in Word, NEW b \in Word, NEW h,
             h = [lower |-> a, upper |-> b],
             \A j \in 1 .. k - 1 : Wrote(s[j].request, h)
      PROVE  LET q == s[k].request
             IN  /\ q.fn \in Mutators =>
                      \A j \in 1 .. k : Wrote(s[j].request, Abstract!Written(q.fn, h, q.val))
                 /\ q.fn \in Accessors =>
                      s[k].expected = Abstract!Shown(q.fn, h) /\ Wrote(q, h)
  <2> DEFINE l == Abstract!Written("setbndl", h, W(vl))
             u == Abstract!Written("setbndu", h, W(vu))
  <2>1. /\ Wrote(lower, l) /\ (Wrote(upper, h) => Wrote(upper, l))
        /\ Wrote(upper, u) /\ (Wrote(lower, h) => Wrote(lower, u))
    <3>1. l = [lower |-> vl, upper |-> b] /\ u = [lower |-> a, upper |-> vu]
      BY <1>2, <1>4
    <3>2. /\ Wrote(lower, l) /\ (Wrote(upper, l) <=> b = vu)
          /\ Wrote(upper, u) /\ (Wrote(lower, u) <=> a = vl)
      <4> HIDE DEF l, u
      <4> QED  BY <1>2, <3>1
    <3> QED  BY <1>2, <1>4, <3>2
  <2> HIDE DEF l, u
  <2>2. CASE k = 1
    <3>1. s[1].request \in {lower, upper} /\ \A j \in 1 .. 1 : j = 1
      BY <1>1
    <3>2. s[1].request.fn \notin Accessors
      BY <1>3, <3>1 DEF Accessors
    <3> QED  BY <1>3, <2>1, <2>2, <3>1, <3>2 DEF l, u
  <2>3. CASE k = 2
    <3>1. /\ Wrote(s[1].request, h) /\ \A j \in 1 .. 2 : j = 1 \/ j = 2
          /\ \/ s[1].request = lower /\ s[2].request = upper
             \/ s[1].request = upper /\ s[2].request = lower
      BY <1>1, <1>4, <2>3
    <3>2. s[2].request.fn \notin Accessors
      BY <1>3, <3>1 DEF Accessors
    <3> QED  BY <1>3, <2>1, <2>3, <3>1, <3>2 DEF l, u
  <2>4. CASE k = 3 \/ k = 4
    <3>1. Wrote(s[1].request, h) /\ Wrote(s[2].request, h)
      BY <1>4, <2>4
    <3>2. Wrote(lower, h) /\ Wrote(upper, h)
      BY <1>1, <3>1
    <3>3. /\ Abstract!Shown("getbndl", h) = W(vl)
          /\ Abstract!Shown("getbndu", h) = W(vu)
      BY <1>2, <1>4, <3>2
    <3>4. s[3].request.fn = "getbndl" /\ s[4].request.fn = "getbndu"
      BY <1>1
    <3>5. Wrote(s[k].request, h) /\ s[k].request.fn \notin Mutators
      BY <2>4, <3>4 DEF Wrote, Mutators
    <3> QED  BY <1>1, <2>4, <3>3, <3>4, <3>5
  <2> QED  BY <2>2, <2>3, <2>4
<1>5. ASSUME NEW k \in 1 .. 4
      PROVE  /\ s[k].request.reg = r
             /\ \/ s[k].request.fn \in Mutators /\ s[k].asserts = "nothing"
                \/ s[k].request.fn \in Accessors
  <2>1. k = 1 \/ k = 2 \/ k = 3 \/ k = 4
    OBVIOUS
  <2> QED  BY <1>1, <2>1 DEF lower, upper, Mutators, Accessors
<1>6. Consistent(s, r)
  BY <1>1, <1>4, <1>5 DEF Consistent
<1> QED  BY <1>6 DEF s

LEMMA ResetConsistent ==
  ASSUME NEW r \in BndRegs
  PROVE  /\ Consistent(reset_bnd_regs[r], r)
         /\ \A h : (\A k \in 1 .. Len(reset_bnd_regs[r]) :
                      Wrote(reset_bnd_regs[r][k].request, h)) => h.lower = 0 /\ h.upper = 0
         /\ \A k \in 1 .. Len(reset_bnd_regs[r]) :
              LET q == reset_bnd_regs[r][k].request
              IN  q.fn \in Mutators /\ q.val = Zero
<1> DEFINE s == reset_bnd_regs[r]
           lower == [fn |-> "setbndl", reg |-> r, val |-> Zero]
           upper == [fn |-> "setbndu", reg |-> r, val |-> Zero]
<1>1. /\ Len(s) = 2 /\ DOMAIN s = 1 .. 2
      /\ s[1].request = lower /\ s[1].asserts = "nothing"
      /\ s[2].request = upper /\ s[2].asserts = "nothing"
  BY DEF reset_bnd_regs, Set, Line
<1>2. \A h : (Wrote(lower, h) <=> h.lower = 0) /\ (Wrote(upper, h) <=> h.upper = 0)
  BY DEF Wrote, Zero
<1>3. /\ lower.fn = "setbndl" /\ lower.val = Zero
      /\ upper.fn = "setbndu" /\ upper.val = Zero
      /\ lower.reg = r /\ upper.reg = r
  OBVIOUS
<1> HIDE DEF s, lower, upper
<1>4. ASSUME NEW k \in 1 .. 2, NEW a \in Word, NEW b \in Word, NEW h,
             h = [lower |-> a, upper |-> b],
             \A j \in 1 .. k - 1 : Wrote(s[j].request, h)
      PROVE  LET q == s[k].request
             IN  /\ q.fn \in Mutators =>
                      \A j \in 1 .. k : Wrote(s[j].request, Abstract!Written(q.fn, h, q.val))
                 /\ q.fn \in Accessors =>
                      s[k].expected = Abstract!Shown(q.fn, h) /\ Wrote(q, h)
  <2>1. /\ Wrote(lower, Abstract!Written("setbndl", h, Zero))
        /\ Wrote(upper, Abstract!Written("setbndu", h, Zero))
        /\ Wrote(lower, h) => Wrote(lower, Abstract!Written("setbndu", h, Zero))
    BY <1>2, <1>4 DEF Abstract!Written, Zero
  <2>2. CASE k = 1
    BY <1>1, <1>3, <2>1, <2>2 DEF Accessors
  <2>3. CASE k = 2
    <3>1. Wrote(lower, h) /\ \A j \in 1 .. 2 : j = 1 \/ j = 2
      BY <1>1, <1>4, <2>3
    <3> QED  BY <1>1, <1>3, <2>1, <2>3, <3>1 DEF Accessors
  <2> QED  BY <2>2, <2>3
<1>5. ASSUME NEW k \in 1 .. 2
      PROVE  /\ s[k].request.reg = r /\ s[k].request.val = Zero
             /\ s[k].request.fn \in Mutators /\ s[k].asserts = "nothing"
  BY <1>1, <1>3 DEF Mutators
<1>6. Consistent(s, r)
  BY <1>1, <1>4, <1>5 DEF Consistent
<1> QED  BY <1>1, <1>2, <1>5, <1>6 DEF s

LEMMA TestsConsistent ==
  ASSUME NEW i \in DOMAIN Tests, NEW r \in BndRegs
  PROVE  Consistent(Tests[i][r], r)
<1>1. \A v : Consistent(<<Set("setbndl", r, W(v)), Get("getbndl", r, W(v))>>, r)
  <2> TAKE v
  <2>1. \A a, b \in Word :
          LET h == [lower |-> a, upper |-> b]
          IN  Wrote([fn |-> "setbndl", reg |-> r, val |-> W(v)], h) =>
                W(v) = Abstract!Shown("getbndl", h)
    BY DEF Wrote, Abstract!Shown, W
  <2> QED  BY <2>1, PairConsistent DEF Mutators, Accessors
<1>2. \A v : Consistent(<<Set("setbndu", r, W(v)), Get("getbndu", r, W(v))>>, r)
  <2> TAKE v
  <2>1. \A a, b \in Word :
          LET h == [lower |-> a, upper |-> b]
          IN  Wrote([fn |-> "setbndu", reg |-> r, val |-> W(v)], h) =>
                W(v) = Abstract!Shown("getbndu", h)
    BY DEF Wrote, Abstract!Shown, W
  <2> QED  BY <2>1, PairConsistent DEF Mutators, Accessors
<1>3. \A v : Consistent(<<Set("qsetbndl", r, W(v)), Get("qgetbndl", r, W(v))>>, r)
  <2> TAKE v
  <2>1. \A a, b \in Word :
          LET h == [lower |-> a, upper |-> b]
          IN  Wrote([fn |-> "qsetbndl", reg |-> r, val |-> W(v)], h) =>
                W(v) = Abstract!Shown("qgetbndl", h)
    BY DEF Wrote, Abstract!Shown, W
  <2> QED  BY <2>1, PairConsistent DEF Mutators, Accessors
<1>4. Consistent(<<Set("setbnd", r, wide_val), Get("getbnd", r, wide_val)>>, r)
  <2>1. wide_val = [lo |-> wide_val.lo, hi |-> wide_val.hi]
    BY DEF wide_val, W
  <2>2. \A a, b \in Word :
          LET h == [lower |-> a, upper |-> b]
          IN  Wrote([fn |-> "setbnd", reg |-> r, val |-> wide_val], h) =>
                wide_val = Abstract!Shown("getbnd", h)
    BY <2>1 DEF Wrote, Abstract!Shown
  <2> QED  BY <2>2, PairConsistent DEF Mutators, Accessors
<1>5. i \in 1 .. 8
  BY DEF Tests
<1>6. /\ Tests[1] = test_lower_half /\ Tests[2] = test_upper_half
      /\ Tests[3] = test_lower_lt_upper /\ Tests[4] = test_lower_gt_upper
      /\ Tests[5] = test_upper_lt_lower /\ Tests[6] = test_upper_gt_lower
      /\ Tests[7] = test_wide /\ Tests[8] = test_quick
  BY DEF Tests
<1>7. /\ Consistent(test_lower_half[r], r)
      /\ Consistent(test_upper_half[r], r)
      /\ Consistent(test_wide[r], r)
      /\ Consistent(test_quick[r], r)
  <2>1. Consistent(test_lower_half[r], r)
    BY <1>1 DEF test_lower_half
  <2>2. Consistent(test_upper_half[r], r)
    BY <1>2 DEF test_upper_half
  <2>3. Consistent(test_wide[r], r)
    BY <1>4 DEF test_wide
  <2>4. Consistent(test_quick[r], r)
    BY <1>3 DEF test_quick
  <2> QED  BY <2>1, <2>2, <2>3, <2>4
<1>8. CASE i \in {3, 4, 5, 6}
  BY <1>6, <1>8, HalvedConsistent
     DEF test_lower_lt_upper, test_lower_gt_upper, test_upper_lt_lower, test_upper_gt_lower
<1>9. CASE i \in {1, 2, 7, 8}
  BY <1>6, <1>7, <1>9
<1> QED  BY <1>5, <1>8, <1>9

LEMMA RegistersOfLoop ==
  /\ Len(BND) \in Nat \ {0} /\ DOMAIN BND = 1 .. Len(BND)
  /\ \A i \in DOMAIN BND : BND[i] \in BndRegs
  /\ \A r \in BndRegs : \E i \in DOMAIN BND : BND[i] = r
  BY SuiteAssumption

LEMMA ScriptConsistent ==
  ASSUME NEW p \in Position, p.stage \in {"test_setup", "test"}
  PROVE  BND[p.reg] \in BndRegs /\ Consistent(Script(p), BND[p.reg])
<1>1. p.reg \in DOMAIN BND /\ p.test \in DOMAIN Tests
  BY DEF Position
<1>2. BND[p.reg] \in BndRegs
  BY <1>1, RegistersOfLoop
<1>3. /\ Consistent(reset_bnd_regs[BND[p.reg]], BND[p.reg])
      /\ Consistent(Tests[p.test][BND[p.reg]], BND[p.reg])
  BY <1>1, <1>2, ResetConsistent, TestsConsistent
<1> QED  BY <1>2, <1>3 DEF Script

\* The suite reads a register as two words.
LEMMA HalvesType ==
  ASSUME TypeOK, NEW r \in BndRegs
  PROVE  \E a, b \in Word : Halves(r) = [lower |-> a, upper |-> b]
<1>1. ctx[MainThread].bnd[r] \in Bounds
  BY ThreadsAssumption DEF TypeOK, Context
<1> QED  BY <1>1, ComplementInWord DEF Halves, Presented, Bounds

-----------------------------------------------------------------------------
\* The invariant of the suite, action by action.

\* What SuiteInv adds to the invariant of the library.
Progress == InPosition /\ InMpx /\ InScript /\ InReset /\ AssertionsHold

LEMMA InitProgress == SuiteInit => Progress
<1> SUFFICES ASSUME SuiteInit
             PROVE  Progress
  OBVIOUS
<1>1. /\ at.stage = "begin" /\ at.test = 1 /\ at.reg = 1 /\ at.line = 1 /\ at = Start("begin", 1)
  BY DEF SuiteInit, Start
<1>2. 1 \in DOMAIN Tests /\ 1 \in DOMAIN BND
  BY RegistersOfLoop DEF Tests
<1>3. at \in Position
  BY <1>1, <1>2 DEF Position, Start
<1>4. pc[MainThread] = "idle"
  BY ThreadsAssumption DEF SuiteInit, Init
<1> QED  BY <1>1, <1>3, <1>4 DEF Progress, InPosition, InMpx, InScript, InReset,
                                 AssertionsHold, InLoop, Idle

\* Progress depends on the position and on what the suite sees of its thread.
LEMMA SameView ==
  ASSUME Progress, at' = at, platform' = platform, pc' = pc, ctx' = ctx, call' = call,
         out' = out
  PROVE  Progress'
<1>1. InPosition'
  BY DEF Progress, InPosition, Idle, Now, Script
<1>2. InMpx'
  BY DEF Progress, InMpx, InLoop, check_mpx_support
<1>3. InScript' /\ InReset' /\ AssertionsHold'
  BY DEF Progress, InScript, InReset, AssertionsHold, Done, Idle, Halves, Cleared,
         Presented, InLoop, Script, Passed, Now
<1> QED  BY <1>1, <1>2, <1>3 DEF Progress

LEMMA CallProgress ==
  ASSUME TypeOK, ThreadInv(MainThread), ThreadInv(MainThread)', Progress, InLoop, Library
  PROVE  Progress'
<1>0. PICK p : at = p
  OBVIOUS
<1> DEFINE t == MainThread
           s == Script(p)
           r == BND[p.reg]
           k == p.line
           q == s[k].request
<1>1. /\ t \in Threads /\ LibraryStep(t) /\ Busy(t) /\ at = p /\ at' = p
  BY <1>0, ThreadsAssumption, BusyInLibrary DEF Library
<1>2. ~Idle
  BY <1>1 DEF Busy, Idle
<1>3. p \in Position /\ p.stage \in {"test_setup", "test"}
  BY <1>0 DEF Progress, InPosition, InLoop
<1>4. r \in BndRegs /\ Consistent(s, r)
  BY <1>3, ScriptConsistent
<1>5. k \in 1 .. Len(s) /\ DOMAIN s = 1 .. Len(s) /\ Len(s) \in Nat
  <2>1. k <= Len(s) /\ k \in 1 .. 4
    BY <1>0, <1>3 DEF Progress, InPosition, Position
  <2> QED  BY <1>4, <2>1 DEF Consistent
<1>6. call[t] = q
  BY <1>0, <1>3 DEF Progress, InPosition, Now
<1>7. MpxOn(ctx[t])
  BY DEF Progress, InMpx
<1>8. /\ q.reg = r
      /\ \/ q.fn \in Mutators /\ s[k].asserts = "nothing"
         \/ q.fn \in Accessors
  BY <1>4, <1>5 DEF Consistent
<1>9. PICK a \in Word, b \in Word : Halves(r) = [lower |-> a, upper |-> b]
  BY <1>4, HalvesType
<1> HIDE DEF s, r, k, q
<1>10. \A j \in 1 .. k - 1 : Wrote(s[j].request, Halves(r))
  BY <1>0, <1>2, <1>5 DEF Progress, InScript, Done, s, r, k
<1>11. /\ q.fn \in Mutators =>
            \A j \in 1 .. k : Wrote(s[j].request, Abstract!Written(q.fn, Halves(r), q.val))
       /\ q.fn \in Accessors =>
            s[k].expected = Abstract!Shown(q.fn, Halves(r)) /\ Wrote(q, Halves(r))
  BY <1>4, <1>5, <1>9, <1>10 DEF Consistent, q
<1>12. /\ call[t].fn \in Accessors \cup Mutators /\ Reg(t) = r /\ Val(t) = q.val
  BY <1>6, <1>8 DEF Reg, Val
<1>13. /\ call' = call /\ MpxOn(ctx'[t]) /\ pc'[t] # "unborn"
       /\ \/ /\ pc'[t] # "idle"
             /\ Presented(ctx'[t]) = Presented(ctx[t])
          \/ /\ pc'[t] = "idle" /\ q.fn \in Accessors
             /\ out'[t] = Abstract!Shown(q.fn, Halves(r))
             /\ Presented(ctx'[t]) = Presented(ctx[t])
          \/ /\ pc'[t] = "idle" /\ q.fn \in Mutators
             /\ Presented(ctx'[t]) =
                  [Presented(ctx[t]) EXCEPT ![r] = Abstract!Written(q.fn, @, q.val)]
  BY <1>1, <1>4, <1>6, <1>7, <1>12, CallEffect DEF Halves
<1>14. InPosition'
  <2>1. Script(at)' = Script(at) /\ Now(at)' = Now(at)
    BY <1>1 DEF Script, Now
  <2> QED  BY <1>1, <1>3, <1>13, <2>1 DEF Progress, InPosition
<1>15. InMpx'
  BY <1>1, <1>3, <1>13 DEF InMpx, InLoop
<1>16. Presented(ctx[t]) = [x \in BndRegs |-> Halves(x)]
  BY DEF Presented, Halves
<1>17. InScript'
  <2>1. Script(at)' = s /\ BND[at.reg]' = r /\ at.line' = k
    BY <1>1 DEF s, r, k, Script
  <2>2. ASSUME NEW j \in 1 .. Len(s), Done(j)'
        PROVE  Wrote(s[j].request, Halves(r)')
    <3>1. j < k \/ (j = k /\ pc'[t] = "idle")
      BY <1>1, <2>2 DEF Done, Idle, k
    <3>2. Halves(r)' = Presented(ctx'[t])[r]
      BY DEF Halves, Presented
    <3>3. CASE Presented(ctx'[t]) = Presented(ctx[t]) /\ (pc'[t] = "idle" => q.fn \in Accessors)
      <4>1. Halves(r)' = Halves(r)
        BY <3>2, <3>3 DEF Halves
      <4> QED  BY <1>5, <1>10, <1>11, <3>1, <3>3, <4>1 DEF q
    <3>4. CASE q.fn \in Mutators /\ Presented(ctx'[t]) =
                  [Presented(ctx[t]) EXCEPT ![r] = Abstract!Written(q.fn, @, q.val)]
      <4>1. Halves(r)' = Abstract!Written(q.fn, Halves(r), q.val)
        BY <1>4, <1>16, <3>2, <3>4
      <4> QED  BY <1>5, <1>11, <3>1, <3>4, <4>1
    <3> QED  BY <1>13, <3>3, <3>4
  <2> QED  BY <1>5, <2>1, <2>2 DEF InScript
<1>18. InReset'
  <2> SUFFICES ASSUME p.stage = "test_setup", NEW i \in 1 .. p.reg - 1
               PROVE  Cleared(BND[i])'
    BY <1>1 DEF InReset
  <2>1. Cleared(BND[i]) /\ BND[i] \in BndRegs
    <3>1. p.reg \in 1 .. Len(BND)
      BY <1>3, RegistersOfLoop DEF Position
    <3>2. i \in DOMAIN BND
      BY <3>1, RegistersOfLoop
    <3> QED  BY <1>0, <3>2, RegistersOfLoop DEF Progress, InReset
  <2>2. Halves(BND[i])' = Presented(ctx'[t])[BND[i]]
    BY DEF Halves, Presented
  <2>3. q.fn \in Mutators /\ q.val = Zero
    <3>1. s = reset_bnd_regs[r]
      BY <1>0 DEF s, r, Script
    <3> QED  BY <1>4, <1>5, <3>1, ResetConsistent DEF q
  <2>4. CASE Presented(ctx'[t]) = Presented(ctx[t])
    BY <2>1, <2>2, <2>4 DEF Cleared, Halves
  <2>5. CASE Presented(ctx'[t]) =
               [Presented(ctx[t]) EXCEPT ![r] = Abstract!Written(q.fn, @, q.val)]
    <3>1. CASE BND[i] # r
      <4>1. Halves(BND[i])' = Halves(BND[i])
        BY <1>16, <2>1, <2>2, <2>5, <3>1
      <4> QED  BY <2>1, <4>1 DEF Cleared
    <3>2. CASE BND[i] = r
      <4>1. Halves(r)' = Abstract!Written(q.fn, Halves(r), q.val)
        BY <1>4, <1>16, <2>2, <2>5, <3>2
      <4>2. Halves(r) = [lower |-> 0, upper |-> 0]
        BY <1>9, <2>1, <3>2 DEF Cleared
      <4>3. Halves(r)' = [lower |-> 0, upper |-> 0]
        BY <2>3, <4>1, <4>2 DEF Abstract!Written, Mutators, Zero
      <4> QED  BY <3>2, <4>3 DEF Cleared
    <3> QED  BY <3>1, <3>2
  <2> QED  BY <1>13, <2>4, <2>5
<1>19. AssertionsHold'
  <2>1. Now(at)' = s[k]
    BY <1>1 DEF Now, Script, s, k
  <2>2. pc'[t] = "idle" => s[k].asserts = "nothing" \/ out'[t] = s[k].expected
    <3>1. q.fn \in Mutators => q.fn \notin Accessors
      BY DEF Mutators, Accessors
    <3> QED  BY <1>8, <1>11, <1>13, <3>1
  <2> QED  BY <2>1, <2>2 DEF AssertionsHold, Idle, Passed
<1> QED  BY <1>14, <1>15, <1>17, <1>18, <1>19 DEF Progress

\* In the setup and the teardown the suite runs a runtime function.
LEMMA RuntimeProgress ==
  ASSUME TypeOK, ThreadInv(MainThread), ThreadInv(MainThread)', Progress, ~InLoop, Library
  PROVE  Progress'
<1> DEFINE t == MainThread
<1>1. /\ t \in Threads /\ LibraryStep(t) /\ ~Idle /\ at' = at
  BY ThreadsAssumption, BusyInLibrary DEF Library, Busy, Idle
<1>2. at.stage \in {"suite_setup", "suite_teardown"}
  BY <1>1 DEF Progress, InPosition, Position, InLoop
<1>3. /\ at.line = 1 /\ call[t].fn \in RuntimeFunctions
      /\ Now(at).expected = W(1)
  <2>1. CASE at.stage = "suite_setup"
    <3>1. Script(at) = <<Runtime("process_specific_init")>>
      BY <2>1 DEF Script
    <3>2. at.line = 1
      BY <2>1, <3>1 DEF Progress, InPosition, Position
    <3> QED  BY <2>1, <3>1, <3>2 DEF Progress, InPosition, Now, Runtime, Line, RuntimeFunctions
  <2>2. CASE at.stage = "suite_teardown"
    <3>1. Script(at) = <<Runtime("process_specific_finish")>>
      BY <2>2 DEF Script
    <3>2. at.line = 1
      BY <2>2, <3>1 DEF Progress, InPosition, Position
    <3> QED  BY <2>2, <3>1, <3>2 DEF Progress, InPosition, Now, Runtime, Line, RuntimeFunctions
  <2> QED  BY <1>2, <2>1, <2>2
<1>4. /\ call' = call /\ pc'[t] # "unborn"
      /\ check_mpx_support(platform)' = check_mpx_support(platform)
      /\ pc'[t] = "idle" /\ check_mpx_support(platform) => out'[t] = W(1)
  BY <1>1, <1>3, RuntimeEffect
<1>5. Now(at)' = Now(at) /\ Script(at)' = Script(at)
  BY <1>1 DEF Now, Script
<1>6. InPosition'
  BY <1>1, <1>2, <1>4, <1>5 DEF Progress, InPosition
<1>7. InMpx' /\ InScript' /\ InReset'
  BY <1>1, <1>2, <1>4 DEF Progress, InMpx, InScript, InReset, InLoop
<1>8. AssertionsHold'
  BY <1>1, <1>2, <1>3, <1>4, <1>5 DEF Progress, InMpx, AssertionsHold, Idle, Passed
<1> QED  BY <1>6, <1>7, <1>8 DEF Progress

\* When the setup has not failed, MPX is on.
LEMMA SetupPassed ==
  ASSUME Progress, ThreadInv(MainThread), Idle, at.stage = "suite_setup", ~Fatal
  PROVE  MpxOn(ctx[MainThread])
<1>1. Script(at) = <<Runtime("process_specific_init")>>
  BY DEF Script
<1>2. at.line = 1
  BY <1>1 DEF Progress, InPosition, Position
<1>3. /\ Now(at).asserts = "fatal" /\ Now(at).expected = W(1)
      /\ Now(at).request.fn = "process_specific_init"
  BY <1>1, <1>2 DEF Now, Runtime, Line
<1>4. out[MainThread] = W(1) /\ call[MainThread].fn = "process_specific_init"
  BY <1>3 DEF Progress, InPosition, Fatal, Passed
<1> QED  BY <1>4 DEF ThreadInv, InAnswer, Idle, RuntimeFunctions, W

\* Where the next line is.
LEMMA NextPosition ==
  ASSUME Progress, NextInBody \/ NextRegister \/ NextStage
  PROVE  /\ at' \in Position /\ at'.stage # "begin" /\ at'.line \in 1 .. Len(Script(at'))
         /\ NextInBody => Script(at') = Script(at)
<1>0. \A n \in 1 .. 4 : 1 \in 1 .. n
  OBVIOUS
<1>1. at \in Position /\ (at.stage # "begin" => at.line <= Len(Script(at)))
  BY DEF Progress, InPosition
<1>2. \A p \in Position : p.stage \in {"test_setup", "test"} => Len(Script(p)) \in 1 .. 4
  BY ScriptConsistent DEF Consistent
<1>3. CASE NextInBody
  <2>1. /\ at' = [at EXCEPT !.line = at.line + 1] /\ at.line # Len(Script(at))
        /\ at.stage \in {"test_setup", "test"} /\ at.line \in 1 .. 4
    BY <1>1, <1>3 DEF NextInBody, InLoop, LastLine, Position
  <2>2. /\ at'.stage = at.stage /\ at'.test = at.test /\ at'.reg = at.reg
        /\ at'.line = at.line + 1
    BY <1>1, <2>1 DEF Position
  <2>3. Script(at') = Script(at)
    BY <2>2 DEF Script
  <2>4. Len(Script(at)) \in 1 .. 4 /\ at.line <= Len(Script(at))
    BY <1>1, <1>2, <2>1
  <2>5. at'.line \in 1 .. Len(Script(at)) /\ at'.line \in 1 .. 4
    <3>1. \A i, n \in 1 .. 4 : i <= n /\ i # n => i + 1 \in 1 .. n /\ i + 1 \in 1 .. 4
      OBVIOUS
    <3> QED  BY <2>1, <2>2, <2>4, <3>1
  <2>6. at' \in Position
    BY <1>1, <2>1, <2>5, <2>2 DEF Position
  <2> QED  BY <2>1, <2>2, <2>3, <2>5, <2>6
<1>4. CASE NextRegister
  <2>1. /\ at' = [at EXCEPT !.reg = at.reg + 1, !.line = 1] /\ at.reg # Len(BND)
        /\ at.stage \in {"test_setup", "test"} /\ at.reg \in 1 .. Len(BND)
        /\ at.line = Len(Script(at))
    BY <1>1, <1>4, RegistersOfLoop DEF NextRegister, InLoop, LastRegister, LastLine, Position
  <2>2. at.reg + 1 \in DOMAIN BND
    BY <2>1, RegistersOfLoop
  <2>3. at' \in Position /\ at'.stage = at.stage /\ at'.line = 1
    <3>1. at' = [stage |-> at.stage, test |-> at.test, reg |-> at.reg + 1, line |-> 1]
      BY <1>1, <2>1 DEF Position
    <3> QED  BY <1>1, <2>2, <3>1 DEF Position
  <2>4. Len(Script(at')) \in 1 .. 4
    BY <1>2, <2>1, <2>3
  <2>5. ~NextInBody
    BY <1>4 DEF NextRegister, NextInBody
  <2> QED  BY <1>0, <2>1, <2>3, <2>4, <2>5
<1>5. CASE NextStage
  <2>1. PICK stage \in {"suite_setup", "test_setup", "test", "suite_teardown"},
             test \in DOMAIN Tests : at' = Start(stage, test)
    <3>1. at.test \in DOMAIN Tests /\ DOMAIN Tests = 1 .. Len(Tests) /\ Len(Tests) = 8
      BY <1>1 DEF Position, Tests
    <3>2. 1 \in DOMAIN Tests
      BY <3>1
    <3>3. at.test < Len(Tests) => at.test + 1 \in DOMAIN Tests
      BY <3>1
    <3> QED  BY <1>5, <3>1, <3>2, <3>3 DEF NextStage
  <2>2. /\ at'.stage = stage /\ at'.line = 1
        /\ at' \in Position
    BY <2>1, RegistersOfLoop DEF Start, Position
  <2>3. Len(Script(at')) \in 1 .. 4
    <3>1. CASE stage \in {"test_setup", "test"}
      BY <1>2, <2>2, <3>1
    <3>2. CASE stage = "suite_setup"
      BY <2>2, <3>2 DEF Script
    <3>3. CASE stage = "suite_teardown"
      BY <2>2, <3>3 DEF Script
    <3> QED  BY <3>1, <3>2, <3>3
  <2>4. ~NextInBody
    <3>1. CASE at.stage \in {"begin", "suite_setup"}
      BY <3>1 DEF NextInBody, InLoop
    <3>2. CASE LastLine
      BY <3>2 DEF NextInBody
    <3> QED  BY <1>5, <3>1, <3>2 DEF NextStage
  <2> QED  BY <1>0, <2>1, <2>2, <2>3, <2>4 DEF Start
<1> QED  BY <1>3, <1>4, <1>5

LEMMA LineProgress ==
  ASSUME TypeOK, ThreadInv(MainThread), Progress, NextLine
  PROVE  Progress'
<1> DEFINE t == MainThread
<1>1. t \in Threads /\ pc[t] = "idle" /\ Idle /\ ~Fatal
  BY ThreadsAssumption DEF NextLine, Idle
<1>2. ctx' = ctx /\ platform' = platform
  <2>1. ctx' = [ctx EXCEPT ![t] = NearBranch(ctx[t])] /\ platform' = platform
    BY DEF NextLine, Invoke
  <2>2. NearBranch(ctx[t]) = ctx[t]
    BY <1>1, MadeContext, NearBranchKeeps DEF Made
  <2> QED  BY <2>1, <2>2 DEF TypeOK
<1>3. call'[t] = Now(at').request /\ pc'[t] \in Functions
  <2>1. PICK q \in Requests : pc' = [pc EXCEPT ![t] = q.fn]
    BY DEF NextLine, Invoke
  <2>2. q.fn \in Functions
    BY DEF Requests, NoCall, Functions, Mutators
  <2> QED  BY <1>1, <2>1, <2>2 DEF NextLine, TypeOK
<1>4. pc'[t] # "idle" /\ pc'[t] # "unborn" /\ ~Idle'
  BY <1>3 DEF Functions, Accessors, Mutators, RuntimeFunctions, Idle
<1>5. /\ at' \in Position /\ at'.stage # "begin" /\ at'.line \in 1 .. Len(Script(at'))
      /\ NextInBody => Script(at') = Script(at)
  BY NextPosition DEF NextLine
<1>6. at \in Position
  BY DEF Progress, InPosition
<1>7. NextInBody \/ NextRegister \/ NextStage
  BY DEF NextLine
<1>8. InPosition'
  BY <1>3, <1>4, <1>5 DEF InPosition, Now
<1>9. ((NextInBody \/ NextRegister) /\ InLoop) \/ NextStage
  BY <1>7 DEF NextInBody, NextRegister
<1>10. /\ NextInBody => at'.stage = at.stage /\ at'.reg = at.reg /\ at'.line = at.line + 1
       /\ NextRegister => at'.stage = at.stage /\ at'.reg = at.reg + 1 /\ at'.line = 1
       /\ NextStage => at'.reg = 1 /\ at'.line = 1
  <2>1. CASE NextInBody
    <3>1. at' = [at EXCEPT !.line = at.line + 1] /\ ~LastLine
      BY <2>1 DEF NextInBody
    <3>2. ~NextRegister
      BY <3>1 DEF NextRegister
    <3>3. ~NextStage
      BY <2>1, <3>1 DEF NextInBody, NextStage, InLoop
    <3>4. at'.stage = at.stage /\ at'.reg = at.reg /\ at'.line = at.line + 1
      BY <1>6, <3>1 DEF Position
    <3> QED  BY <3>2, <3>3, <3>4
  <2>2. CASE NextRegister
    <3>1. at' = [at EXCEPT !.reg = at.reg + 1, !.line = 1]
      BY <2>2 DEF NextRegister
    <3> QED  BY <1>6, <2>2, <3>1 DEF Position, NextRegister, NextInBody, NextStage, InLoop
  <2>3. CASE NextStage
    <3>1. at'.reg = 1 /\ at'.line = 1
      BY <2>3 DEF NextStage, Start
    <3> QED  BY <2>3, <3>1 DEF NextInBody, NextRegister, NextStage, InLoop
  <2> QED  BY <1>7, <2>1, <2>2, <2>3
<1>11. InMpx'
  <2>1. CASE InLoop
    <3>1. MpxOn(ctx[t])
      BY <2>1 DEF Progress, InMpx
    <3>2. check_mpx_support(platform)
      BY <1>1, <3>1, OffInitContext DEF ThreadInv, InContext
    <3> QED  BY <1>2, <3>1, <3>2 DEF InMpx, check_mpx_support
  <2>2. CASE ~InLoop
    <3>1. NextStage
      BY <1>9, <2>2
    <3>2. at.stage \in {"begin", "suite_setup"}
      BY <2>2, <3>1 DEF NextStage
    <3>3. CASE at.stage = "begin"
      BY <3>1, <3>3 DEF NextStage, Start, InMpx, InLoop
    <3>4. CASE at.stage = "suite_setup"
      <4>1. MpxOn(ctx[t])
        BY <1>1, <3>4, SetupPassed
      <4>2. at'.stage = "test_setup"
        BY <3>1, <3>4 DEF NextStage, Start, InLoop
      <4> QED  BY <1>2, <4>1, <4>2 DEF InMpx
    <3> QED  BY <3>2, <3>3, <3>4
  <2> QED  BY <2>1, <2>2
<1>12. \A r \in BndRegs : Halves(r)' = Halves(r)
  BY <1>2 DEF Halves, Presented
<1>13. InLoop =>
         /\ Consistent(Script(at), BND[at.reg])
         /\ DOMAIN Script(at) = 1 .. Len(Script(at)) /\ Len(Script(at)) \in 1 .. 4
         /\ BND[at.reg] \in BndRegs
  BY <1>6, ScriptConsistent DEF InLoop, Consistent
<1>14. InScript'
  <2>0. PICK n : at' = n
    OBVIOUS
  <2> SUFFICES ASSUME InLoop', NEW k \in DOMAIN Script(n), Done(k)'
               PROVE  Wrote(Script(n)[k].request, Halves(BND[n.reg])')
    BY <2>0 DEF InScript
  <2>1. k < n.line /\ k \in 1 .. Len(Script(n))
    <3>1. DOMAIN Script(n) = 1 .. Len(Script(n))
      BY <1>5, <2>0, ScriptConsistent DEF InLoop, Consistent
    <3> QED  BY <1>4, <2>0, <3>1 DEF Done
  <2>2. CASE NextInBody
    <3>1. /\ Script(n) = Script(at) /\ n.reg = at.reg /\ n.line = at.line + 1
          /\ InLoop
      BY <1>5, <1>10, <2>0, <2>2 DEF NextInBody
    <3>2. k < at.line \/ k = at.line
      BY <1>6, <2>1, <3>1 DEF Position
    <3>3. Wrote(Script(at)[k].request, Halves(BND[at.reg]))
      BY <1>1, <3>1, <3>2 DEF Progress, InScript, Done
    <3>4. Halves(BND[n.reg])' = Halves(BND[at.reg])
      BY <1>12, <1>13, <3>1
    <3> QED  BY <3>1, <3>3, <3>4
  <2>3. CASE NextRegister \/ NextStage
    BY <1>10, <2>0, <2>1, <2>3
  <2> QED  BY <1>7, <2>2, <2>3
<1>15. InReset'
  <2> SUFFICES ASSUME at'.stage = "test_setup", NEW i \in 1 .. at'.reg - 1
               PROVE  Cleared(BND[i])'
    BY DEF InReset
  <2>1. i \in DOMAIN BND /\ BND[i] \in BndRegs
    <3>1. at'.reg \in 1 .. Len(BND)
      BY <1>5, RegistersOfLoop DEF Position
    <3> QED  BY <3>1, RegistersOfLoop
  <2>2. Cleared(BND[i])
    <3>1. CASE NextInBody
      BY <1>10, <3>1 DEF Progress, InReset
    <3>2. CASE NextRegister
      <4>1. at.stage = "test_setup" /\ (i \in 1 .. at.reg - 1 \/ i = at.reg)
        <5>1. at.reg \in 1 .. Len(BND)
          BY <1>6, RegistersOfLoop DEF Position
        <5> QED  BY <1>10, <3>2, <5>1, RegistersOfLoop
      <4>2. CASE i \in 1 .. at.reg - 1
        BY <4>1, <4>2 DEF Progress, InReset
      <4>3. CASE i = at.reg
        <5>1. /\ InLoop /\ at.line = Len(Script(at))
              /\ Script(at) = reset_bnd_regs[BND[at.reg]]
          BY <3>2, <4>1 DEF NextRegister, LastLine, Script
        <5>2. \A k \in 1 .. Len(Script(at)) :
                Wrote(Script(at)[k].request, Halves(BND[at.reg]))
          BY <1>1, <1>13, <5>1 DEF Progress, InScript, Done
        <5> QED  BY <1>13, <4>3, <5>1, <5>2, ResetConsistent DEF Cleared
      <4> QED  BY <4>1, <4>2, <4>3
    <3>3. CASE NextStage
      BY <1>10, <3>3
    <3> QED  BY <1>7, <3>1, <3>2, <3>3
  <2> QED  BY <1>12, <2>1, <2>2 DEF Cleared
<1>16. AssertionsHold'
  BY <1>4 DEF AssertionsHold
<1> QED  BY <1>8, <1>11, <1>14, <1>15, <1>16 DEF Progress

LEMMA ProgressStep ==
  ASSUME TypeOK, ProcessInv, ProcessInv', Progress, [SuiteNext]_suiteVars
  PROVE  Progress'
<1>1. ThreadInv(MainThread) /\ ThreadInv(MainThread)'
  BY ThreadsAssumption DEF ProcessInv
<1>2. CASE NextLine
  BY <1>1, <1>2, LineProgress
<1>3. CASE Library
  BY <1>1, <1>3, CallProgress, RuntimeProgress
<1>4. CASE End \/ Frames \/ UNCHANGED suiteVars
  BY <1>4, SameView DEF End, Frames, UseStack, suiteVars, vars
<1> QED  BY <1>2, <1>3, <1>4 DEF SuiteNext

-----------------------------------------------------------------------------
\* The theorems.

(* The invariant of the suite: it is at a line of a script and has made its   *)
(* call, MPX is on between setup and teardown, the lines executed so far hold *)
(* what they wrote, and reset_bnd_regs has cleared what it has come past.     *)
THEOREM SuiteInvariant == SuiteSpec => []SuiteInv
<1>1. TypeOK /\ ProcessInv /\ ProcessInv' /\ Progress /\ [SuiteNext]_suiteVars => Progress'
  BY ProgressStep
<1>2. SuiteSpec => [](TypeOK /\ ProcessInv)
  BY SuiteIsAClient, Invariant, PTL
<1>3. Progress /\ ProcessInv => SuiteInv
  BY DEF Progress, SuiteInv
<1> QED  BY <1>1, <1>2, <1>3, InitProgress, PTL DEF SuiteSpec

(* Every assertion of simplex_test.c holds, for words of any width and        *)
(* whatever the tests write: it is the library's own promises that they rest  *)
(* on, not the values that the tests happen to use.                          *)
THEOREM EveryAssertionHolds == SuiteSpec => []AssertionsHold
<1>1. SuiteInv => AssertionsHold
  BY DEF SuiteInv
<1> QED  BY <1>1, SuiteInvariant, PTL

(* No test runs without MPX: suite_setup ends the suite where                *)
(* process_specific_init answers false.                                      *)
THEOREM EveryTestHasMpx == SuiteSpec => []TestsHaveMpx
<1>1. SuiteInv => TestsHaveMpx
  <2> SUFFICES ASSUME SuiteInv, Idle, at.stage \in {"suite_setup", "test_setup", "test"},
                      ~Fatal
               PROVE  MpxOn(ctx[MainThread])
    BY DEF TestsHaveMpx
  <2>1. Progress /\ ThreadInv(MainThread)
    BY ThreadsAssumption DEF SuiteInv, Progress, ProcessInv
  <2> QED  BY <2>1, SetupPassed DEF Progress, InMpx, InLoop
<1> QED  BY <1>1, SuiteInvariant, PTL

(* reset_bnd_regs gives every test cleared registers, all of them and both    *)
(* halves, whatever the tests before it left.                                *)
THEOREM EveryTestStartsClean == SuiteSpec => []TestsStartClean
<1>1. SuiteInv => TestsStartClean
  <2> SUFFICES ASSUME SuiteInv, Idle, at.stage = "test_setup", LastLine, LastRegister,
                      NEW r \in BndRegs
               PROVE  Cleared(r)
    BY DEF TestsStartClean
  <2>1. PICK i \in DOMAIN BND : BND[i] = r
    BY RegistersOfLoop
  <2>2. at \in Position /\ at.reg = Len(BND) /\ at.line = Len(Script(at)) /\ InLoop
    BY DEF SuiteInv, InPosition, LastLine, LastRegister, InLoop
  <2>3. i \in 1 .. at.reg - 1 \/ i = at.reg
    BY <2>2, RegistersOfLoop
  <2>4. CASE i \in 1 .. at.reg - 1
    BY <2>1, <2>4 DEF SuiteInv, InReset
  <2>5. CASE i = at.reg
    <3>1. /\ Script(at) = reset_bnd_regs[r]
          /\ DOMAIN Script(at) = 1 .. Len(Script(at)) /\ Len(Script(at)) \in 1 .. 4
      BY <2>1, <2>2, <2>5, ScriptConsistent DEF Script, InLoop, Consistent
    <3>2. \A k \in 1 .. Len(Script(at)) : Wrote(Script(at)[k].request, Halves(r))
      BY <2>1, <2>2, <2>5, <3>1 DEF SuiteInv, InScript, Done
    <3> QED  BY <3>1, <3>2, ResetConsistent DEF Cleared
  <2> QED  BY <2>3, <2>4, <2>5
<1> QED  BY <1>1, SuiteInvariant, PTL
=============================================================================
