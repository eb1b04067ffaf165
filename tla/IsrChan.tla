------------------------------- MODULE IsrChan -------------------------------
(***************************************************************************)
(* The depth-1 channel of the C runtime, share/c/pssc_chan.h: one          *)
(* foreground thread and an interrupt handler that posts.  The foreground  *)
(* advances by one access of the shared object at a time; the handler runs *)
(* to completion between two such accesses, unless PSSC_CHAN_ENTER masks   *)
(* it.  share/cpp/pssc_chan.hpp has the same two operations.               *)
(*                                                                         *)
(* What is chosen before the program runs is fixed in the initial state:   *)
(* how the generator lowers a blocking end (wait, `--chan-wait`), whether  *)
(* the platform defines the critical section (crit), whether its yield_()  *)
(* sleeps until the next interrupt (wfi), and whether the model also posts *)
(* from the foreground (fgPosts).                                          *)
(***************************************************************************)
EXTENDS Naturals, Sequences, FiniteSets

CONSTANTS Token,      \* the values posted
          NoToken,    \* the content of the slot and of `*v` before any post
          MaxPost,    \* bound: posts by the handler
          MaxCall     \* bound: calls made by the foreground

ASSUME NoTokenAssumption == NoToken \notin Token
ASSUME BoundAssumption   == MaxPost \in Nat /\ MaxCall \in Nat

VARIABLES wait, crit, wfi, fgPosts,  \* the generated program's platform
          v, full,             \* pssc_chan1_t
          op, arg,             \* the foreground's call and the token it posts
          pc,                  \* how far it is
          ok, out,             \* its locals: the test's outcome, `*v`
          masked,              \* inside PSSC_CHAN_ENTER .. PSSC_CHAN_EXIT
          posts, calls,        \* history: counters for the bounds
          sent, rcvd,          \* history: posts accepted, values taken
          owed, covered        \* history: a notification not yet consumed;
                               \* the take under way was tested after it

platform == <<wait, crit, wfi, fgPosts>>
local == <<op, arg, pc, ok, out>>
vars == <<platform, v, full, local, masked, posts, calls, sent, rcvd, owed, covered>>

GetOp == {"tryGet", "getPoll", "getYield"}
PutOp == {"tryPut", "putPoll"}
PC == {"idle", "enter", "test", "copy", "flag", "exit", "yield", "asleep"}

IsGet == op \in GetOp

Init == /\ wait \in {"reject", "poll", "yield"}
        /\ crit \in BOOLEAN /\ wfi \in BOOLEAN /\ fgPosts \in BOOLEAN
        /\ v = NoToken /\ full = FALSE
        /\ op = "tryGet" /\ arg = NoToken /\ pc = "idle"
        /\ ok = FALSE /\ out = NoToken
        /\ masked = FALSE
        /\ posts = 0 /\ calls = 0
        /\ sent = <<>> /\ rcvd = <<>>
        /\ owed = FALSE /\ covered = FALSE

-----------------------------------------------------------------------------
(* The foreground *)

\* What the generated body calls for the model's get(), put(), try_get() and
\* try_put(): `reject` refuses the blocking ones, `yield` makes a blocking
\* put() a try_put.
GetCalls == {"tryGet"} \cup (CASE wait = "poll"  -> {"getPoll"}
                               [] wait = "yield" -> {"getYield"}
                               [] OTHER          -> {})
PutCalls == {"tryPut"} \cup (IF wait = "poll" THEN {"putPoll"} ELSE {})

\* get_yield calls the platform's yield_() before it looks (or nothing, under
\* `--yield none`); the others look first.
CallGet(o) == /\ pc = "idle" /\ calls < MaxCall
              /\ op' = o /\ arg' = NoToken /\ out' = NoToken
              /\ \/ pc' = "enter"
                 \/ o = "getYield" /\ pc' = "yield"
              /\ calls' = calls + 1
              /\ UNCHANGED <<platform, v, full, ok, masked, posts, sent, rcvd, owed, covered>>

CallPut(o, x) == /\ pc = "idle" /\ calls < MaxCall /\ fgPosts
                 /\ op' = o /\ arg' = x /\ out' = NoToken
                 /\ pc' = "enter"
                 /\ calls' = calls + 1
                 /\ UNCHANGED <<platform, v, full, ok, masked, posts, sent, rcvd, owed, covered>>

\* Faulty: the macros are defined and the operations do not use them.
EnterUnmasked == /\ pc = "enter" /\ pc' = "test"
                 /\ masked' = FALSE
                 /\ UNCHANGED <<platform, v, full, op, arg, ok, out, posts, calls,
                                sent, rcvd, owed, covered>>

\* PSSC_CHAN_ENTER(): nothing, unless the platform defines it.
Enter == /\ pc = "enter" /\ pc' = "test"
         /\ masked' = crit
         /\ UNCHANGED <<platform, v, full, op, arg, ok, out, posts, calls,
                        sent, rcvd, owed, covered>>

\* Faulty: the value is not copied between the test and the clearing.
TestThenFlag == /\ pc = "test"
                /\ ok' = (IF IsGet THEN full ELSE ~full)
                /\ pc' = IF ok' THEN "flag" ELSE "exit"
                /\ covered' = (IsGet /\ full)
                /\ UNCHANGED <<platform, v, full, op, arg, out, masked, posts, calls, sent, rcvd, owed>>

\* ok = (c->full != 0), or (c->full == 0) for a post.
Test == /\ pc = "test"
        /\ ok' = (IF IsGet THEN full ELSE ~full)
        /\ pc' = IF ok' THEN "copy" ELSE "exit"
        /\ covered' = (IsGet /\ full)
        /\ UNCHANGED <<platform, v, full, op, arg, out, masked, posts, calls, sent, rcvd, owed>>

\* *v = c->v, or c->v = v.
Copy == /\ pc = "copy" /\ pc' = "flag"
        /\ IF IsGet THEN out' = v /\ UNCHANGED v
                    ELSE v' = arg /\ UNCHANGED out
        /\ UNCHANGED <<platform, full, op, arg, ok, masked, posts, calls,
                       sent, rcvd, owed, covered>>

\* Faulty: a take leaves the channel full.
FlagKept == /\ pc = "flag" /\ pc' = "exit"
            /\ IF IsGet THEN /\ rcvd' = Append(rcvd, out)
                             /\ UNCHANGED <<full, sent>>
                        ELSE /\ full' = TRUE
                             /\ sent' = Append(sent, arg)
                             /\ UNCHANGED rcvd
            /\ owed' = (owed /\ ~covered)
            /\ UNCHANGED <<platform, v, op, arg, ok, out, masked, posts, calls, covered>>

\* c->full = 0, or c->full = 1.
Flag == /\ pc = "flag" /\ pc' = "exit"
        /\ full' = ~IsGet
        /\ IF IsGet THEN rcvd' = Append(rcvd, out) /\ UNCHANGED sent
                    ELSE sent' = Append(sent, arg) /\ UNCHANGED rcvd
        /\ owed' = (owed /\ ~covered)
        /\ UNCHANGED <<platform, v, op, arg, ok, out, masked, posts, calls, covered>>

\* Faulty: the poll loop spins on the value of `full` it loaded (no volatile).
ExitHoisted == /\ pc = "exit"
               /\ masked' = FALSE
               /\ pc' = IF op \in {"getPoll", "putPoll"} /\ ~ok THEN "exit" ELSE "idle"
               /\ covered' = FALSE
               /\ UNCHANGED <<platform, v, full, op, arg, ok, out, posts, calls, sent, rcvd, owed>>

\* PSSC_CHAN_EXIT() and the return; a poll loop whose try failed goes round.
Exit == /\ pc = "exit"
        /\ masked' = FALSE
        /\ pc' = IF op \in {"getPoll", "putPoll"} /\ ~ok THEN "yield" ELSE "idle"
        /\ covered' = FALSE
        /\ UNCHANGED <<platform, v, full, op, arg, ok, out, posts, calls, sent, rcvd, owed>>

\* The platform's yield_(): it returns, or it waits for an interrupt.
Yield == /\ pc = "yield"
         /\ pc' = IF wfi THEN "asleep" ELSE "enter"
         /\ UNCHANGED <<platform, v, full, op, arg, ok, out, masked, posts, calls,
                        sent, rcvd, owed, covered>>

Foreground == Enter \/ Test \/ Copy \/ Flag \/ Exit \/ Yield

-----------------------------------------------------------------------------
\* The handler calls try_put: refused, and coalesced with the token that is
\* there, when the channel is full.  Any interrupt ends the wait in yield_().
Isr(x) == /\ ~masked /\ posts < MaxPost
          /\ posts' = posts + 1
          /\ \/ /\ ~full
                /\ v' = x /\ full' = TRUE
                /\ sent' = Append(sent, x)
             \/ /\ full
                /\ UNCHANGED <<v, full, sent>>
          /\ owed' = TRUE
          /\ covered' = FALSE
          /\ pc' = IF pc = "asleep" THEN "enter" ELSE pc
          /\ UNCHANGED <<platform, op, arg, ok, out, masked, calls, rcvd>>

Next == \/ \E o \in GetCalls : CallGet(o)
        \/ \E o \in PutCalls, x \in Token : CallPut(o, x)
        \/ Enter \/ Test \/ Copy \/ Flag \/ Exit \/ Yield
        \/ \E x \in Token : Isr(x)

Spec == Init /\ [][Next]_vars

\* The foreground is a running thread.  Nothing makes the device interrupt.
FairSpec == Spec /\ WF_vars(Foreground)

-----------------------------------------------------------------------------
\* pssc_chan1_t holds a token or its initial value, and so do the values the
\* foreground takes; a take that never copied the slot would show here.
TypeOK == /\ crit \in BOOLEAN /\ wfi \in BOOLEAN /\ fgPosts \in BOOLEAN
          /\ wait \in {"reject", "poll", "yield"}
          /\ v \in Token \cup {NoToken} /\ full \in BOOLEAN
          /\ op \in GetOp \cup PutOp /\ arg \in Token \cup {NoToken}
          /\ pc \in PC
          /\ ok \in BOOLEAN /\ out \in Token \cup {NoToken}
          /\ masked \in BOOLEAN
          /\ posts \in 0 .. MaxPost /\ calls \in 0 .. MaxCall
          /\ sent \in Seq(Token) /\ rcvd \in Seq(Token)
          /\ owed \in BOOLEAN /\ covered \in BOOLEAN

Held == IF full THEN <<v>> ELSE <<>>

\* With the critical section, or without it as long as only the handler posts,
\* the runtime implements the channel the model declares: however the handler's
\* posts fall between the foreground's accesses, each step of either accepts one
\* value, delivers the oldest, or does neither.  (Otherwise a foreground post
\* and the handler's can both find the channel empty, and one accepted value
\* overwrites the other: nothing is said of those builds.)
Guarded == crit \/ ~fgPosts
If(seq) == IF Guarded THEN seq ELSE <<>>
Chan == INSTANCE Channel WITH Depth <- 1, held <- If(Held), sent <- If(sent), rcvd <- If(rcvd)
ImplementsChannel == Chan!Spec

\* On every platform: a value is taken at most as often as it was posted.
\* "Neither invents a completion."
Count(s, x) == Cardinality({i \in DOMAIN s : s[i] = x})
NeverInvents == \A x \in Token : Count(rcvd, x) <= Count(sent, x)

\* Coalescing loses no notification, given the critical section: after the
\* handler has posted, accepted or refused, the channel stays full until a
\* take that looked at it after that post.
CoalescingKeepsToken == crit /\ owed => full

\* A blocking get() under `--chan-wait poll` returns once a token is there,
\* on a platform whose yield_() returns.
PolledGetReturns ==
    (~wfi /\ op = "getPoll" /\ pc # "idle" /\ full) ~> pc = "idle"
=============================================================================
