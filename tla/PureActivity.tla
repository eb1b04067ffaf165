---------------------------- MODULE PureActivity ----------------------------
(***************************************************************************)
(* A `parallel` or `schedule` block as the sv-pure target lowers and runs  *)
(* it (targets/sv/lower_pure.py, which makes a fork of both): each thread  *)
(* is a sequence of traversals, and a traversal claims instances without   *)
(* waiting, receives its stream inputs, runs, sends its stream outputs and *)
(* releases.  Pools and channels are those of zsp_rt_pkg.sv.               *)
(*                                                                         *)
(* claim() returns -1 when no instance is free; nothing looks at it.  The  *)
(* thread goes on with a null handle, and unlock(-1) uses a null semaphore,*)
(* which ends the simulation.                                              *)
(***************************************************************************)
EXTENDS ResourcePool, Sequences, FiniteSets

CONSTANTS Scenario,   \* the forks considered: sequences of thread programs
          Thread,     \* 1 .. n
          Chan        \* the stream channels

\* A traversal, in the order of the action's fields; what it claims and where
\* its streams go is declared.
Traversal == [claims : Seq([pool : Pool, kind : {"lock", "share"}]),
              gets : Seq(Chan), puts : Seq(Chan)]

ASSUME ThreadAssumption   == IsFiniteSet(Thread)
ASSUME ScenarioAssumption ==
    \A scn \in Scenario : \A t \in DOMAIN scn : scn[t] \in Seq(Traversal)

VARIABLES prog, at,   \* each thread's traversals, and the one it is at
          phase, k,   \* how far it is in it
          cid,        \* the ids its claims returned
          box,        \* zsp_stream_channel: a mailbox of one item
          aborted     \* the simulation ended with a null handle error

threadVars == <<prog, at, phase, k, cid>>
vars == <<poolVars, threadVars, box, aborted>>

Phase == {"next", "claim", "get", "body", "put", "release"}

Init == /\ New
        /\ \E scn \in Scenario : prog = [t \in Thread |-> IF t \in DOMAIN scn THEN scn[t] ELSE <<>>]
        /\ at = [t \in Thread |-> 1]
        /\ phase = [t \in Thread |-> "next"]
        /\ k = [t \in Thread |-> 0]
        /\ cid = [t \in Thread |-> <<>>]
        /\ box = [c \in Chan |-> 0]
        /\ aborted = FALSE

Done(t) == at[t] > Len(prog[t])
Trav(t) == prog[t][at[t]]
At(t, ph) == ~aborted /\ ~Done(t) /\ phase[t] = ph

\* The statements of a phase are run for k = 1 .. Len(list); an empty list is
\* passed over.
Goto(t, ph) == phase' = [phase EXCEPT ![t] = ph] /\ k' = [k EXCEPT ![t] = 1]
Loop(t, list, ph) == IF k[t] < Len(list) THEN k' = [k EXCEPT ![t] = @ + 1] /\ UNCHANGED phase
                                         ELSE Goto(t, ph)
Skip(t, ph, list, next) == /\ At(t, ph) /\ list = <<>>
                           /\ Goto(t, next)
                           /\ UNCHANGED <<poolVars, prog, at, cid, box, aborted>>

\* handle = new(); pre_solve()
Enter(t) == /\ At(t, "next")
            /\ Goto(t, "claim")
            /\ cid' = [cid EXCEPT ![t] = <<>>]
            /\ UNCHANGED <<poolVars, prog, at, box, aborted>>

\* _cid = pool.claim() or pool.claim_shared(); handle.field = pool.get(_cid)
Claim(t) ==
    LET c == Trav(t).claims[k[t]]
        n == IF c.kind = "lock" THEN ClaimId(c.pool) ELSE ClaimSharedId(c.pool)
    IN  /\ At(t, "claim") /\ Trav(t).claims # <<>>
        /\ cid' = [cid EXCEPT ![t] = Append(@, n)]
        /\ IF n = -1 THEN UNCHANGED poolVars
           ELSE IF c.kind = "lock" THEN TryLock(<<c.pool, n>>) ELSE TryShare(<<c.pool, n>>)
        /\ Loop(t, Trav(t).claims, "get")
        /\ UNCHANGED <<prog, at, box, aborted>>

\* Faulty: mailbox.peek for mailbox.get.
GetPeek(t) == /\ At(t, "get") /\ Trav(t).gets # <<>>
              /\ box[Trav(t).gets[k[t]]] > 0
              /\ Loop(t, Trav(t).gets, "body")
              /\ UNCHANGED <<poolVars, prog, at, cid, box, aborted>>

Get(t) == /\ At(t, "get") /\ Trav(t).gets # <<>>
          /\ LET c == Trav(t).gets[k[t]]
             IN  box[c] > 0 /\ box' = [box EXCEPT ![c] = @ - 1]
          /\ Loop(t, Trav(t).gets, "body")
          /\ UNCHANGED <<poolVars, prog, at, cid, aborted>>

\* The randomizations, post_solve() and activity().
Body(t) == /\ At(t, "body")
           /\ Goto(t, "put")
           /\ UNCHANGED <<poolVars, prog, at, cid, box, aborted>>

\* Faulty: an unbounded mailbox.
PutUnbounded(t) == /\ At(t, "put") /\ Trav(t).puts # <<>>
                   /\ box' = [box EXCEPT ![Trav(t).puts[k[t]]] = @ + 1]
                   /\ Loop(t, Trav(t).puts, "release")
                   /\ UNCHANGED <<poolVars, prog, at, cid, aborted>>

Put(t) == /\ At(t, "put") /\ Trav(t).puts # <<>>
          /\ LET c == Trav(t).puts[k[t]]
             IN  box[c] < 1 /\ box' = [box EXCEPT ![c] = @ + 1]
          /\ Loop(t, Trav(t).puts, "release")
          /\ UNCHANGED <<poolVars, prog, at, cid, aborted>>

\* pool.unlock(_cid) or pool.unshare(_cid), in the order of the claims.
Release(t) ==
    LET c == Trav(t).claims[k[t]]
        n == cid[t][k[t]]
    IN  /\ At(t, "release") /\ Trav(t).claims # <<>>
        /\ IF n # -1
           THEN IF c.kind = "lock" THEN Unlock(<<c.pool, n>>) ELSE Unshare(<<c.pool, n>>)
           ELSE UNCHANGED poolVars
        /\ aborted' = (n = -1 /\ c.kind = "lock")
        /\ IF k[t] < Len(Trav(t).claims)
           THEN k' = [k EXCEPT ![t] = @ + 1] /\ UNCHANGED <<at, phase>>
           ELSE Goto(t, "next") /\ at' = [at EXCEPT ![t] = @ + 1]
        /\ UNCHANGED <<prog, cid, box>>

NoClaim(t) == Skip(t, "claim", Trav(t).claims, "get")
NoGet(t)   == Skip(t, "get", Trav(t).gets, "body")
NoPut(t)   == Skip(t, "put", Trav(t).puts, "release")
Leave(t)   == /\ At(t, "release") /\ Trav(t).claims = <<>>
              /\ Goto(t, "next") /\ at' = [at EXCEPT ![t] = @ + 1]
              /\ UNCHANGED <<poolVars, prog, cid, box, aborted>>

Run(t) == \/ Enter(t) \/ Claim(t) \/ Get(t) \/ Body(t) \/ Put(t) \/ Release(t)
          \/ NoClaim(t) \/ NoGet(t) \/ NoPut(t) \/ Leave(t)

Next == \E t \in Thread : Run(t)

Spec == Init /\ [][Next]_vars

\* The simulator runs every thread that can run, and activities end.
FairSpec == Spec /\ \A t \in Thread : WF_vars(Run(t))

-----------------------------------------------------------------------------
\* The pool's counters never go negative, and a stream channel holds at most
\* the one item mailbox new(1) has room for.
TypeOK == /\ lockHeld \in [Instance -> BOOLEAN]
          /\ shareCount \in [Instance -> Nat]
          /\ lockSem \in [Instance -> Nat]
          /\ at \in [Thread -> Nat \ {0}]
          /\ phase \in [Thread -> Phase]
          /\ k \in [Thread -> Nat]
          /\ \A t \in Thread : cid[t] \in Seq(Nat \cup {-1})
          /\ box \in [Chan -> {0, 1}]
          /\ aborted \in BOOLEAN

\* The claims of thread t that were granted and not yet released.
Holds(t) == IF phase[t] = "next" THEN {}
            ELSE {n \in DOMAIN cid[t] : cid[t][n] # -1 /\ (phase[t] = "release" => n >= k[t])}
Res(t, n)  == <<Trav(t).claims[n].pool, cid[t][n]>>
Kind(t, n) == Trav(t).claims[n].kind
Out == UNION {{t} \X Holds(t) : t \in Thread}
Holding(i, kd) == {s \in Out : Kind(s[1], s[2]) = kd /\ Res(s[1], s[2]) = i}

\* The claims that are out, as grants of the instances they claim.
Grants == {[by |-> <<s[1], at[s[1]], s[2]>>, of |-> Res(s[1], s[2]), kind |-> Kind(s[1], s[2])] : s \in Out}
Pools == INSTANCE Allocator WITH held <- Grants
\* However the threads interleave, and whatever was refused before: a claim is
\* granted an instance that nobody else has, unless both share it, and what a
\* thread releases is the instance it was granted.
ImplementsAllocator == Pools!Spec

\* The pool's flag and counter are exactly the claims that are out: no refused
\* claim and no release is counted twice or missed.
CountsExact ==
    \A i \in Instance : /\ lockHeld[i] <=> Holding(i, "lock") # {}
                        /\ shareCount[i] = Cardinality(Holding(i, "share"))

\* The claims of pool p that the threads make when each is at traversal f[t].
Wanted(f, p, t) == IF f[t] \in DOMAIN prog[t]
                   THEN {c \in DOMAIN prog[t][f[t]].claims : prog[t][f[t]].claims[c].pool = p}
                   ELSE {}
Together(f, p) == UNION {{t} \X Wanted(f, p, t) : t \in Thread}

\* A fork whose threads together never claim more than the pools have,
\* wherever each of them is.
Places == [Thread -> {1} \cup UNION {DOMAIN prog[t] : t \in Thread}]
Feasible == \A p \in Pool, f \in Places : Cardinality(Together(f, p)) <= Cap[p]

\* Then every claim is granted, in every interleaving: sharers that are spread
\* over several instances do not starve a later lock.
FeasibleGranted == Feasible =>
    /\ ~aborted
    /\ \A t \in Thread : \A n \in DOMAIN cid[t] : cid[t][n] # -1

\* The statements of the program that send to (d = "put") or receive from
\* (d = "get") channel c: <<<<thread, traversal>>, position>>.
Streams(s, d) == IF d = "get" THEN prog[s[1]][s[2]].gets ELSE prog[s[1]][s[2]].puts
Traversals == UNION {{t} \X DOMAIN prog[t] : t \in Thread}
Ends(d, c) == UNION {{s} \X {m \in DOMAIN Streams(s, d) : Streams(s, d)[m] = c} : s \in Traversals}
Uses(t, d, c) == \E e \in Ends(d, c) : e[1][1] = t

\* Every channel is sent what is received from it, a thread sends to one channel
\* at most, and the threads can be numbered so that items go upwards.
Streamed ==
    /\ \A c \in Chan : Cardinality(Ends("put", c)) = Cardinality(Ends("get", c))
    /\ \A t \in Thread : \A c, d \in Chan : Uses(t, "put", c) /\ Uses(t, "put", d) => c = d
    /\ \E rank \in [Thread -> 1 .. Cardinality(Thread)] :
           \A t, u \in Thread : \A c \in Chan : Uses(t, "put", c) /\ Uses(u, "get", c) => rank[t] < rank[u]

AllDone == \A t \in Thread : Done(t)
AllFree == \A i \in Instance : ~lockHeld[i] /\ shareCount[i] = 0

\* The thread waits for an item, or for room for one; claims do not wait.
Waits(t) == \/ At(t, "get") /\ Trav(t).gets # <<>> /\ box[Trav(t).gets[k[t]]] = 0
            \/ At(t, "put") /\ Trav(t).puts # <<>> /\ box[Trav(t).puts[k[t]]] = 1

\* Until the simulation ends or the fork is at its join, with every claim
\* released and every item taken, some thread can go on: threads that hold
\* claims while they wait for an item or for room do not wait in a circle.
StreamedNeverStuck == Streamed =>
    \/ aborted
    \/ AllDone /\ AllFree /\ \A c \in Chan : box[c] = 0
    \/ \E t \in Thread : ~Done(t) /\ ~Waits(t)

\* Then a feasible fork reaches its join.
StreamedForkJoins == (Feasible /\ Streamed) ~> (AllDone /\ AllFree)
=============================================================================
