----------------------------- MODULE TestSuite -----------------------------
(***************************************************************************)
(* simplex_test.c: the library under its CUnit suite.  A test is a script  *)
(* of calls, each with the value that its assertion expects, repeated for  *)
(* every register; SimplexProcess executes the calls.                      *)
(***************************************************************************)
EXTENDS SimplexProcess, Sequences

CONSTANTS BND,            \* the registers, in the order of the enumeration
          DEADBEEFDEADBEEF, DEAD, BEEF, \* the values of the tests
          TwoTo16         \* what << 16 multiplies by

ASSUME SuiteAssumption ==
  /\ BND \in Seq(BndRegs) /\ BND # <<>> /\ BndRegs = {BND[i] : i \in DOMAIN BND}
  /\ {DEADBEEFDEADBEEF, DEAD, BEEF} \subseteq Word /\ BEEF < DEAD
  /\ TwoTo16 \in Word

VARIABLES at,      \* the call that the suite has come to
          verdict  \* running, aborted by a fatal assertion, or finished

suiteVars == <<vars, at, verdict>>

W(v) == [lo |-> v, hi |-> 0]

\* A line calls a function and may assert what it returns, with or without a fatal
\* assertion.
Line(fn, reg, val, asserts, expected) ==
  [request |-> [fn |-> fn, reg |-> reg, val |-> val],
   asserts |-> asserts, expected |-> expected]
Set(fn, reg, val) == Line(fn, reg, val, "nothing", Zero)
Get(fn, reg, val) == Line(fn, reg, Zero, "equal", val)
Runtime(fn) == Line(fn, OtherReg, Zero, "fatal", W(1))

\* Plausible bug: the upper half is left out.
ResetLower == [r \in BndRegs |-> <<Set("setbndl", r, Zero)>>]

reset_bnd_regs == [r \in BndRegs |-> <<Set("setbndl", r, Zero), Set("setbndu", r, Zero)>>]

test_lower_half == [r \in BndRegs |->
  <<Set("setbndl", r, W(DEADBEEFDEADBEEF)), Get("getbndl", r, W(DEADBEEFDEADBEEF))>>]

test_upper_half == [r \in BndRegs |->
  <<Set("setbndu", r, W(DEADBEEFDEADBEEF)), Get("getbndu", r, W(DEADBEEFDEADBEEF))>>]

\* The two halves, one set before the other, then both read.
Halved(r, first, vl, vu) ==
  LET lower == Set("setbndl", r, W(vl))
      upper == Set("setbndu", r, W(vu))
      below == first = "lower"
  IN  <<IF below THEN lower ELSE upper, IF below THEN upper ELSE lower,
        Get("getbndl", r, W(vl)), Get("getbndu", r, W(vu))>>

test_lower_lt_upper == [r \in BndRegs |-> Halved(r, "lower", BEEF, DEAD)]
test_lower_gt_upper == [r \in BndRegs |-> Halved(r, "lower", DEAD, BEEF)]
test_upper_lt_lower == [r \in BndRegs |-> Halved(r, "upper", DEAD, BEEF)]
test_upper_gt_lower == [r \in BndRegs |-> Halved(r, "upper", BEEF, DEAD)]

\* The constant is 64 bits wide when it is shifted.
wide_val == W((DEADBEEFDEADBEEF * TwoTo16) % M)
test_wide == [r \in BndRegs |->
  <<Set("setbnd", r, wide_val), Get("getbnd", r, wide_val)>>]

test_quick == [r \in BndRegs |->
  <<Set("qsetbndl", r, W(DEADBEEFDEADBEEF)), Get("qgetbndl", r, W(DEADBEEFDEADBEEF))>>]

Tests ==
  <<test_lower_half, test_upper_half, test_lower_lt_upper, test_lower_gt_upper,
    test_upper_lt_lower, test_upper_gt_lower, test_wide, test_quick>>

-----------------------------------------------------------------------------
\* Where the suite is: before everything, in its setup, in CU_TEST_SETUP of a test, in
\* the test, or in its teardown; at a register of the loop and a line of its body.
Position ==
  [stage : {"begin", "suite_setup", "test_setup", "test", "suite_teardown"},
   test : DOMAIN Tests, reg : DOMAIN BND, line : 1 .. 4]

Start(stage, test) == [stage |-> stage, test |-> test, reg |-> 1, line |-> 1]
InLoop == at.stage \in {"test_setup", "test"}

Script(p) ==
  CASE p.stage = "suite_setup" -> <<Runtime("process_specific_init")>>
    [] p.stage = "test_setup" -> reset_bnd_regs[BND[p.reg]]
    [] p.stage = "test" -> Tests[p.test][BND[p.reg]]
    [] p.stage = "suite_teardown" -> <<Runtime("process_specific_finish")>>
    [] OTHER -> <<>>

Now(p) == Script(p)[p.line]

SuiteInit == Init /\ at = Start("begin", 1) /\ verdict = "running"

Idle == pc[MainThread] = "idle"
Passed == Now(at).asserts = "nothing" \/ out[MainThread] = Now(at).expected
Fatal == at.stage \in {"suite_setup", "suite_teardown"} /\ ~Passed

LastLine == at.line = Len(Script(at))
LastRegister == at.reg = Len(BND)

NextInBody == InLoop /\ ~LastLine /\ at' = [at EXCEPT !.line = @ + 1]

NextRegister ==
  /\ InLoop /\ LastLine /\ ~LastRegister
  /\ at' = [at EXCEPT !.reg = @ + 1, !.line = 1]

NextStage ==
  \/ at.stage = "begin" /\ at' = Start("suite_setup", 1)
  \/ at.stage = "suite_setup" /\ at' = Start("test_setup", 1)
  \/ /\ InLoop /\ LastLine /\ LastRegister
     /\ \/ at.stage = "test_setup" /\ at' = Start("test", at.test)
        \/ /\ at.stage = "test" /\ at.test < Len(Tests)
           /\ at' = Start("test_setup", at.test + 1)
        \/ /\ at.stage = "test" /\ at.test = Len(Tests)
           /\ at' = Start("suite_teardown", at.test)

NextLine ==
  /\ alive /\ verdict = "running" /\ Idle /\ ~Fatal
  /\ NextInBody \/ NextRegister \/ NextStage
  /\ Invoke(MainThread) /\ call'[MainThread] = Now(at').request
  /\ UNCHANGED verdict

\* What runs the suite ends it when the setup or the teardown fails.
End ==
  /\ alive /\ verdict = "running" /\ Idle
  /\ \/ Fatal /\ verdict' = "aborted"
     \/ ~Fatal /\ at.stage = "suite_teardown" /\ verdict' = "finished"
  /\ UNCHANGED <<vars, at>>

Library == LibraryStep(MainThread) /\ UNCHANGED <<at, verdict>>

\* The frames of the suite and of CUnit between the calls.
Frames == alive /\ verdict = "running" /\ UseStack(MainThread) /\ UNCHANGED <<at, verdict>>

SuiteNext == NextLine \/ End \/ Library \/ Frames

\* The suite runs on, and so does the library.
SuiteSpec ==
  /\ SuiteInit /\ [][SuiteNext]_suiteVars
  /\ WF_suiteVars(NextLine \/ End) /\ WF_suiteVars(Library)

-----------------------------------------------------------------------------
(* Every assertion of every test holds, for each register and whatever the     *)
(* frames between the calls leave on the stack.                               *)
AssertionsHold == Idle /\ at.stage \notin {"begin", "suite_setup"} => Passed

(* No test runs on a machine without MPX: between setup and teardown it is on.  *)
TestsHaveMpx ==
  Idle /\ at.stage \in {"suite_setup", "test_setup", "test"} /\ ~Fatal =>
    MpxOn(ctx[MainThread])

\* The halves of a register as the tests see them.
Halves(r) == Presented(ctx[MainThread])[r]
Cleared(r) == Halves(r).lower = 0 /\ Halves(r).upper = 0

(* A test finds every register cleared, whatever the tests before it left:      *)
(* also by quick and wide functions, which write both halves.                 *)
TestsStartClean ==
  Idle /\ at.stage = "test_setup" /\ LastLine /\ LastRegister =>
    \A r \in BndRegs : Cleared(r)

(* The suite comes to its end, or the library is killed in it.                *)
SuiteEnds == <>(verdict # "running" \/ ~alive)

-----------------------------------------------------------------------------
\* The inductive invariant, with ProcessInv.

InPosition ==
  /\ at \in Position
  /\ at.stage # "begin" => at.line <= Len(Script(at)) /\ call[MainThread] = Now(at).request
  /\ at.stage = "begin" => Idle
  /\ pc[MainThread] # "unborn"

\* The setup has ended well, or the suite is still in it.
InMpx ==
  /\ InLoop => MpxOn(ctx[MainThread])
  /\ at.stage = "suite_teardown" => check_mpx_support(platform)

\* The lines of the script that have been executed hold what they wrote.
Done(k) == k < at.line \/ (k = at.line /\ Idle)
Wrote(q, h) ==
  /\ q.fn \in {"setbndl", "setbnd", "qsetbndl"} => h.lower = q.val.lo
  /\ q.fn = "setbndu" => h.upper = q.val.lo
  /\ q.fn = "setbnd" => h.upper = q.val.hi
InScript ==
  InLoop =>
    \A k \in DOMAIN Script(at) :
      Done(k) => Wrote(Script(at)[k].request, Halves(BND[at.reg]))

\* The registers before that of the loop of reset_bnd_regs are clear.
InReset == at.stage = "test_setup" => \A i \in 1 .. at.reg - 1 : Cleared(BND[i])

SuiteInv ==
  InPosition /\ InMpx /\ InScript /\ InReset /\ AssertionsHold /\ ProcessInv
=============================================================================
