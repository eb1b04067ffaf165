--------------------------- MODULE NativeActivity ---------------------------
(***************************************************************************)
(* A `parallel` block as the sv-native target lowers and runs it: the      *)
(* threads of the fork that targets/sv/lower_activities.py emits for its   *)
(* branches, claiming resources in the order targets/sv/lower_resources.py *)
(* emits, over the pools of zsp_rt_pkg.sv.  Threads interleave between any *)
(* two statements.                                                         *)
(*                                                                         *)
(* A scenario is the sequence of the block's branches.  A branch is a      *)
(* traversal, a sequence of traversals and atomic blocks, or an atomic     *)
(* block of traversals; a traversal is anonymous (`do T`) or of a handle.  *)
(***************************************************************************)
EXTENDS ResourcePool, Sequences, SequencesExt

CONSTANTS Scenario,   \* the scenarios considered
          Thread      \* 1 .. n, enough threads for the fork of each

ASSUME PoolAssumption == Pool \subseteq Int

VARIABLES prog,       \* each thread's program: the fork's statements
          at,         \* the operation it is at
          phase, k,   \* how far it is in the traversal, and the claim it is at
          id,         \* the instance ids randomize() gave its action
          granted,    \* history: the share claims try_share() granted
          atomicSem   \* zsp_component.atomic_sem of the component

threadVars == <<at, phase, k, id, granted>>
vars == <<poolVars, prog, threadVars, atomicSem>>

Phase == {"next", "acquire", "mark", "body", "release"}

-----------------------------------------------------------------------------
(* Lowering.  A claim is [pool, field, kind]; pool and field are ranks.    *)

\* Faulty: sorted by field name alone.
BeforeByField(c, d) == c.field < d.field

\* key=lambda c: (c.pool_expr, c.field_name)
Before(c, d) == c.pool < d.pool \/ (c.pool = d.pool /\ c.field < d.field)

SortedClaims(cs) == CHOOSE s \in [1 .. Cardinality(cs) -> cs] : \A m, n \in DOMAIN s : m < n => Before(s[m], s[n])

Op(o, cs, guarded, atomic) == [op |-> o, claims |-> cs, guarded |-> guarded, atomic |-> atomic]

\* An anonymous traversal acquires and releases its action's claims; the
\* traversal of a handle does not.
Traverse(leaf, atomic) == Op("do", SortedClaims(leaf.claims), leaf.kind = "do", atomic)

AtomicGet == Op("get", <<>>, FALSE, FALSE)
AtomicPut == Op("put", <<>>, FALSE, FALSE)
AtomicBody(s) == [n \in DOMAIN s.stmts |-> Traverse(s.stmts[n], TRUE)]

\* The operations of a statement of a sequence.
Flat(s) == IF s.kind = "atomic" THEN <<AtomicGet>> \o AtomicBody(s) \o <<AtomicPut>>
                                ELSE <<Traverse(s, FALSE)>>

\* The SystemVerilog statements a branch is lowered to.  _lower_parallel
\* wraps a branch in begin..end only when it is a single line, and places
\* the lines of any other as they are; each is then a thread of the fork.
LowerBranch(s) ==
    CASE s.kind = "sequence" -> <<FlattenSeq([n \in DOMAIN s.stmts |-> Flat(s.stmts[n])])>>
      [] s.kind = "atomic"   -> <<<<AtomicGet>>, AtomicBody(s), <<AtomicPut>>>>
      [] OTHER               -> <<Flat(s)>>

Fork(scn) == FlattenSeq([n \in DOMAIN scn |-> LowerBranch(scn[n])])

Program(scn) == LET f == Fork(scn) IN [t \in Thread |-> IF t \in DOMAIN f THEN f[t] ELSE <<>>]

\* What the programs are made of; every claim is of a declared pool.
Operation == [op : {"do", "get", "put"},
              claims : Seq([pool : Pool, field : Nat, kind : {"lock", "share"}]),
              guarded : BOOLEAN, atomic : BOOLEAN]

\* Where a program has an operation.
Places(p, o) == UNION {{t} \X {n \in DOMAIN p[t] : p[t][n].op = o} : t \in Thread}

\* The fields of an action have names of their own, and emit_resource_acquire
\* sorts the claims of each operation.
ASSUME ClaimsAssumption ==
    \A scn \in Scenario : \A t \in Thread : \A n \in DOMAIN Program(scn)[t] :
        LET cs == Program(scn)[t][n].claims
        IN  /\ \A c, d \in Range(cs) : c.field = d.field => c = d
            /\ cs = SortedClaims(Range(cs))

\* _lower_atomic emits one get and one put of every block, and no thread of
\* the fork is left out; only the traversals are of claims and atomic.
ASSUME ThreadAssumption == IsFiniteSet(Thread)
ASSUME ScenarioAssumption == \A scn \in Scenario : Program(scn) \in [Thread -> Seq(Operation)]
ASSUME AtomicAssumption ==
    \A scn \in Scenario :
        LET p == Program(scn)
        IN  /\ Cardinality(Places(p, "get")) = Cardinality(Places(p, "put"))
            /\ \A t \in Thread : \A n \in DOMAIN p[t] : p[t][n].atomic => p[t][n].op = "do"

\* _lower_atomic emits the put of a block behind its get: in a thread of its
\* own, or in the same thread with no other put between.
Follows(p, n) == n = 1 \/ \E m \in 1 .. n - 1 : /\ p[m].op = "get"
                                               /\ \A j \in m + 1 .. n - 1 : p[j].op # "put"
ASSUME PutsAssumption ==
    \A scn \in Scenario : \A t \in Thread : \A n \in DOMAIN Program(scn)[t] :
        Program(scn)[t][n].op = "put" => Follows(Program(scn)[t], n)

-----------------------------------------------------------------------------
(* The simulation *)

Init == /\ New
        /\ prog \in {Program(scn) : scn \in Scenario}
        /\ at = [t \in Thread |-> 1]
        /\ phase = [t \in Thread |-> "next"]
        /\ k = [t \in Thread |-> 0]
        /\ id = [t \in Thread |-> <<>>]
        /\ granted = [t \in Thread |-> {}]
        /\ atomicSem = 1

Done(t) == at[t] > Len(prog[t])
Step(t) == prog[t][at[t]]
At(t, o, ph) == ~Done(t) /\ Step(t).op = o /\ phase[t] = ph

Claims(t) == Step(t).claims
Claim(t)  == Claims(t)[k[t]]
Res(t, n) == <<Claims(t)[n].pool, id[t][n]>>
Emitted(t) == Step(t).guarded /\ Claims(t) # <<>>

Goto(t, ph) == phase' = [phase EXCEPT ![t] = ph]
Advance(t) == at' = [at EXCEPT ![t] = @ + 1] /\ Goto(t, "next")

\* pre_solve, randomize: each instance id is bounded by its pool's size.
Solve(t) ==
    /\ At(t, "do", "next")
    /\ \E ids \in [DOMAIN Claims(t) -> UNION {Ids(p) : p \in Pool}] :
          /\ \A n \in DOMAIN Claims(t) : ids[n] \in Ids(Claims(t)[n].pool)
          /\ id' = [id EXCEPT ![t] = ids]
    /\ k' = [k EXCEPT ![t] = 1]
    /\ granted' = [granted EXCEPT ![t] = {}]
    /\ Goto(t, IF Emitted(t) THEN "acquire" ELSE "body")
    /\ UNCHANGED <<poolVars, prog, at, atomicSem>>

\* The next acquire statement, or post_solve() and body().
Acquired(t) == IF k[t] = Len(Claims(t))
               THEN Goto(t, "body") /\ UNCHANGED k
               ELSE Goto(t, "acquire") /\ k' = [k EXCEPT ![t] = @ + 1]

Lock(t) == /\ At(t, "do", "acquire") /\ Claim(t).kind = "lock"
           /\ LockGet(Res(t, k[t]))
           /\ Goto(t, "mark")
           /\ UNCHANGED <<prog, at, k, id, granted, atomicSem>>

Mark(t) == /\ At(t, "do", "mark")
           /\ LockMark(Res(t, k[t]))
           /\ Acquired(t)
           /\ UNCHANGED <<prog, at, id, granted, atomicSem>>

\* The result of try_share() is not looked at.
Share(t) == /\ At(t, "do", "acquire") /\ Claim(t).kind = "share"
            /\ TryShare(Res(t, k[t]))
            /\ granted' = [granted EXCEPT ![t] = IF CanShare(Res(t, k[t])) THEN @ \cup {k[t]} ELSE @]
            /\ Acquired(t)
            /\ UNCHANGED <<prog, at, id, atomicSem>>

\* body() returns.
Body(t) == /\ At(t, "do", "body")
           /\ IF Emitted(t)
              THEN Goto(t, "release") /\ k' = [k EXCEPT ![t] = Len(Claims(t))] /\ UNCHANGED at
              ELSE Advance(t) /\ UNCHANGED k
           /\ UNCHANGED <<poolVars, prog, id, granted, atomicSem>>

\* Faulty: the first claim acquired is left out of the reversed list.
ReleaseShort(t) ==
    /\ At(t, "do", "release")
    /\ IF Claim(t).kind = "lock" THEN Unlock(Res(t, k[t])) ELSE Unshare(Res(t, k[t]))
    /\ granted' = [granted EXCEPT ![t] = @ \ {k[t]}]
    /\ IF k[t] <= 2 THEN Advance(t) /\ UNCHANGED k
                    ELSE k' = [k EXCEPT ![t] = @ - 1] /\ UNCHANGED <<at, phase>>
    /\ UNCHANGED <<prog, id, atomicSem>>

\* The release statements, in reverse.
Release(t) ==
    /\ At(t, "do", "release")
    /\ IF Claim(t).kind = "lock" THEN Unlock(Res(t, k[t])) ELSE Unshare(Res(t, k[t]))
    /\ granted' = [granted EXCEPT ![t] = @ \ {k[t]}]
    /\ IF k[t] = 1 THEN Advance(t) /\ UNCHANGED k
                   ELSE k' = [k EXCEPT ![t] = @ - 1] /\ UNCHANGED <<at, phase>>
    /\ UNCHANGED <<prog, id, atomicSem>>

\* Faulty: try_get for get.
EnterUnguarded(t) == /\ At(t, "get", "next")
                     /\ atomicSem' = IF atomicSem > 0 THEN atomicSem - 1 ELSE 0
                     /\ Advance(t)
                     /\ UNCHANGED <<poolVars, prog, k, id, granted>>

\* atomic_sem.get(1), atomic_sem.put(1)
EnterAtomic(t) == /\ At(t, "get", "next")
                  /\ atomicSem > 0
                  /\ atomicSem' = atomicSem - 1
                  /\ Advance(t)
                  /\ UNCHANGED <<poolVars, prog, k, id, granted>>

LeaveAtomic(t) == /\ At(t, "put", "next")
                  /\ atomicSem' = atomicSem + 1
                  /\ Advance(t)
                  /\ UNCHANGED <<poolVars, prog, k, id, granted>>

Run(t) == \/ Solve(t) \/ Lock(t) \/ Mark(t) \/ Share(t) \/ Body(t) \/ Release(t)
          \/ EnterAtomic(t) \/ LeaveAtomic(t)

Next == \E t \in Thread : Run(t)

Spec == Init /\ [][Next]_vars

\* The simulator runs every thread that can run, and bodies end.  Semaphores
\* serve their waiters in order; programs are finite, so weak fairness is
\* enough.
FairSpec == Spec /\ \A t \in Thread : WF_vars(Run(t))

-----------------------------------------------------------------------------
\* The pool's counters and semaphores never go negative, and a thread inside a
\* traversal is at one of its claims.
TypeOK == /\ lockHeld \in [Instance -> BOOLEAN]
          /\ shareCount \in [Instance -> Nat]
          /\ lockSem \in [Instance -> Nat]
          /\ at \in [Thread -> Nat \ {0}]
          /\ phase \in [Thread -> Phase]
          /\ k \in [Thread -> Nat]
          /\ \A t \in Thread : phase[t] # "next" => ~Done(t) /\ k[t] \in DOMAIN Claims(t) \cup {1}
          /\ atomicSem \in Nat

\* The claims thread t has passed the acquire statement of, and not yet the
\* release statement.
Passed(t) == IF phase[t] = "next" THEN {}
             ELSE {n \in DOMAIN Claims(t) : \/ phase[t] = "acquire" /\ n < k[t]
                                            \/ phase[t] \in {"mark", "release"} /\ n <= k[t]
                                            \/ phase[t] = "body" /\ Emitted(t)}

Locks(t) == {n \in Passed(t) : Claims(t)[n].kind = "lock"}

\* The instances that are locked, as grants of the claims that locked them.
LockGrants == {[by |-> <<s[1], at[s[1]], s[2]>>, of |-> Res(s[1], s[2]), kind |-> "lock"] :
                  s \in UNION {{t} \X Locks(t) : t \in Thread}}
Pools == INSTANCE Allocator WITH held <- LockGrants
\* However the threads interleave and whatever ids the solver picks, also when
\* two fields of one action were given the same id: a lock is granted an
\* instance that no claim has locked, which the same claim gives back, once.
ImplementsAllocator == Pools!Spec

\* A share count never exceeds the shares that are out, although a refused
\* try_share() is followed by an unshare() all the same.
Sharers(i) == {s \in UNION {{t} \X granted[t] : t \in Thread} :
                  phase[s[1]] # "next" /\ Res(s[1], s[2]) = i}
SharesCovered == \A i \in Instance : shareCount[i] <= Cardinality(Sharers(i))

\* Between the first and the last traversal of an atomic block.
InAtomic(t) == /\ ~Done(t) /\ Step(t).atomic
               /\ phase[t] # "next" \/ (at[t] > 1 /\ prog[t][at[t] - 1].atomic)
AtomicSerial == \A t, u \in Thread : InAtomic(t) /\ InAtomic(u) => t = u

\* Every atomic block of the program is inside its semaphore pair: the
\* statements of the pair and of the block follow each other in one thread.
Opens(o)  == o.op = "get" \/ o.atomic
Closes(o) == o.op = "put" \/ o.atomic
Bracketed(p) == \A n \in DOMAIN p : /\ Opens(p[n]) => n + 1 \in DOMAIN p /\ Closes(p[n + 1])
                                    /\ Closes(p[n]) => n - 1 \in DOMAIN p /\ Opens(p[n - 1])
Wrapped == \A t \in Thread : Bracketed(prog[t])
\* Two atomic blocks that are statements of sequences do not overlap.
WrappedAtomicSerial == Wrapped => AtomicSerial

\* No action of the program locks two instances of one pool.
OneLockPerPool == \A t \in Thread : \A n \in DOMAIN prog[t] :
    LET cs == prog[t][n].claims
    IN  \A a, b \in DOMAIN cs : cs[a].kind = "lock" /\ cs[b].kind = "lock" /\ cs[a].pool = cs[b].pool => a = b

AllDone == \A t \in Thread : Done(t)

\* The thread waits for the semaphore of an instance, or of the component;
\* nothing else in a generated thread waits.
Waits(t) == \/ At(t, "do", "acquire") /\ Claim(t).kind = "lock" /\ lockSem[Res(t, k[t])] = 0
            \/ At(t, "get", "next") /\ atomicSem = 0

\* Nothing is left behind: no lock, no count and no taken token that the next
\* block of the scenario would miss.
AllFree == /\ \A i \in Instance : ~lockHeld[i] /\ shareCount[i] = 0 /\ lockSem[i] = 1
           /\ atomicSem = 1

\* Before its join a fork always has a thread that can go on: the canonical
\* order of acquisition leaves no circle of threads that wait for each other's
\* instances, and none waits for a block that waits for it.  At the join, of
\* every scenario, the pools are as they were built.
ForkNeverStuck == IF AllDone THEN AllFree
                  ELSE OneLockPerPool => \E t \in Thread : ~Done(t) /\ ~Waits(t)

\* Then every fork reaches its join: the canonical order of acquisition
\* leaves no cycle of threads waiting for each other.
OrderedForkJoins == OneLockPerPool ~> AllDone

\* "canonical ordering to prevent deadlock from inconsistent lock ordering",
\* of every scenario.
EveryForkJoins == <>AllDone
=============================================================================
