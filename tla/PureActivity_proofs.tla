-------------------------- MODULE PureActivity_proofs --------------------------
(***************************************************************************)
(* Proofs about the claims and the streams of a sv-pure fork: for every    *)
(* set of forks, every number of threads, every set of pools and channels  *)
(* and every capacity.                                                     *)
(***************************************************************************)
EXTENDS PureActivity, FiniteSetTheorems, WellFoundedInduction, TLAPS

\* The types that matter to the argument.
Typing == /\ lockHeld \in [Instance -> BOOLEAN]
          /\ shareCount \in [Instance -> Nat]
          /\ lockSem \in [Instance -> Nat]
          /\ prog \in [Thread -> Seq(Traversal)]
          /\ at \in [Thread -> Nat \ {0}]
          /\ phase \in [Thread -> Phase]
          /\ k \in [Thread -> Nat]
          /\ cid \in [Thread -> Seq(Nat \cup {-1})]
          /\ box \in [Chan -> {0, 1}]
          /\ aborted \in BOOLEAN

\* k is one of the statements of a phase, or the phase has none.
Index(n, list) == list # <<>> => n \in DOMAIN list

\* Where a thread is while it is inside a traversal: it has an id for every
\* claim it has passed, and an id that is not -1 is one of the pool's.
Inside(t) == /\ ~Done(t)
             /\ phase[t] = "claim" => /\ k[t] = Len(cid[t]) + 1
                                      /\ Index(k[t], Trav(t).claims)
             /\ phase[t] # "claim" => Len(cid[t]) = Len(Trav(t).claims)
             /\ phase[t] = "get" => Index(k[t], Trav(t).gets)
             /\ phase[t] = "put" => Index(k[t], Trav(t).puts)
             /\ phase[t] = "release" => Index(k[t], Trav(t).claims)
             /\ \A n \in DOMAIN cid[t] : /\ n \in DOMAIN Trav(t).claims
                                         /\ cid[t][n] # -1 => Res(t, n) \in Instance
Position == \A t \in Thread : phase[t] # "next" => Inside(t)

\* An instance is locked by at most one claim, and not shared meanwhile; the
\* shares of an instance are finitely many, which its counter counts.
OneOwner == \A i \in Instance :
              /\ \A r, s \in Holding(i, "lock") : r = s
              /\ IsFiniteSet(Holding(i, "share"))
              /\ lockHeld[i] => shareCount[i] = 0

IInv == Typing /\ Position /\ OneOwner /\ CountsExact

-----------------------------------------------------------------------------
(* The pool *)

\* The first id of a set of ids is one of them, if there is any.
LEMMA FirstIdIn ==
  ASSUME NEW S \in SUBSET Nat
  PROVE  IF S = {} THEN FirstId(S) = -1 ELSE FirstId(S) \in S
<1>1. CASE S = {}
  BY <1>1 DEF FirstId
<1>2. CASE S # {}
  <2>1. PICK n \in S : \A m \in S : ~ (<<m, n>> \in OpToRel(<, Nat))
    BY <1>2, NatLessThanWellFounded, WFMin
  <2>2. \A m \in S : n <= m
    <3>1. \A m \in S : ~ (m < n)
      BY <2>1 DEF OpToRel
    <3>2. QED
      BY <3>1
  <2>3. QED
    BY <1>2, <2>2 DEF FirstId
<1>3. QED
  BY <1>1, <1>2

\* claim() and claim_shared() return an instance that was free for the claim,
\* or -1.
LEMMA ClaimedIsFree ==
  ASSUME NEW p \in Pool
  PROVE  /\ ClaimId(p) # -1 => <<p, ClaimId(p)>> \in Instance /\ CanLock(<<p, ClaimId(p)>>)
         /\ ClaimSharedId(p) # -1 => <<p, ClaimSharedId(p)>> \in Instance /\ CanShare(<<p, ClaimSharedId(p)>>)
         /\ ClaimId(p) \in Nat \cup {-1} /\ ClaimSharedId(p) \in Nat \cup {-1}
<1> DEFINE L == {n \in Ids(p) : CanLock(<<p, n>>)}
           H == {n \in Ids(p) : CanShare(<<p, n>>)}
<1>1. Ids(p) \subseteq Nat
  BY CapAssumption DEF Ids
<1>2. FirstId(L) = -1 \/ FirstId(L) \in L
  BY <1>1, FirstIdIn
<1>3. FirstId(H) = -1 \/ FirstId(H) \in H
  BY <1>1, FirstIdIn
<1>4. \A n \in Ids(p) : <<p, n>> \in Instance
  BY DEF Instance
<1>5. QED
  BY <1>1, <1>2, <1>3, <1>4 DEF ClaimId, ClaimSharedId

-----------------------------------------------------------------------------
(* Who holds what *)

\* Claim n of thread t is out, of kind kd, on instance i.
Owns(t, n, i, kd) == n \in Holds(t) /\ Kind(t, n) = kd /\ Res(t, n) = i

LEMMA HoldingIs ==
  ASSUME NEW i, NEW kd
  PROVE  /\ \A s : s \in Holding(i, kd) <=> \E t \in Thread : \E n : s = <<t, n>> /\ Owns(t, n, i, kd)
         /\ \A s : s \in Holding(i, kd)' <=> \E t \in Thread : \E n : s = <<t, n>> /\ Owns(t, n, i, kd)'
<1>1. \A s : s \in Out <=> \E t \in Thread : \E n \in Holds(t) : s = <<t, n>>
  BY DEF Out
<1>2. \A s : s \in Out' <=> \E t \in Thread : \E n \in Holds(t)' : s = <<t, n>>
  BY DEF Out
<1>3. QED
  BY <1>1, <1>2 DEF Holding, Owns

\* Nothing of thread u changes, and so it owns what it owned.
Same(u) == at'[u] = at[u] /\ phase'[u] = phase[u] /\ k'[u] = k[u] /\ cid'[u] = cid[u]

LEMMA Frame ==
  ASSUME NEW u \in Thread, prog' = prog, Same(u)
  PROVE  /\ \A n, i, kd : Owns(u, n, i, kd)' <=> Owns(u, n, i, kd)
         /\ (phase[u] # "next" => Inside(u)) => (phase[u] # "next" => Inside(u))'
<1>1. Done(u)' = Done(u) /\ Trav(u)' = Trav(u)
  BY DEF Same, Done, Trav
<1>2. \A n : Res(u, n)' = Res(u, n) /\ Kind(u, n)' = Kind(u, n)
  BY <1>1 DEF Same, Res, Kind
<1>3. Holds(u)' = Holds(u)
  BY DEF Same, Holds
<1>4. Inside(u)' = Inside(u)
  BY <1>1, <1>2 DEF Same, Inside, Index, Instance
<1>5. QED
  BY <1>2, <1>3, <1>4 DEF Owns, Same

LEMMA Others ==
  ASSUME IInv, prog' = prog, NEW t \in Thread,
         \A u \in Thread \ {t} : Same(u),
         phase'[t] # "next" => Inside(t)'
  PROVE  Position'
BY Frame DEF IInv, Position

\* A step of t that acquires and releases nothing leaves every instance with
\* the claims it had, and the pool exact.
LEMMA Quiet ==
  ASSUME IInv, prog' = prog, NEW t \in Thread, UNCHANGED poolVars,
         \A u \in Thread \ {t} : Same(u),
         \A n, i, kd : Owns(t, n, i, kd)' <=> Owns(t, n, i, kd)
  PROVE  OneOwner' /\ CountsExact'
<1>1. ASSUME NEW i, NEW kd PROVE Holding(i, kd)' = Holding(i, kd)
  <2>1. \A u \in Thread : \A n : Owns(u, n, i, kd)' <=> Owns(u, n, i, kd)
    BY Frame
  <2>2. \A s : s \in Holding(i, kd)' <=> s \in Holding(i, kd)
    BY <2>1, HoldingIs
  <2>3. QED
    BY <2>2
<1>2. QED
  BY <1>1 DEF IInv, OneOwner, CountsExact, poolVars, Instance

\* A claim that is granted is the instance's only lock, or one more share.
LEMMA Gain ==
  ASSUME IInv, prog' = prog, NEW t \in Thread, NEW m, NEW i \in Instance, NEW kd \in {"lock", "share"},
         \A u \in Thread \ {t} : Same(u),
         ~Owns(t, m, i, kd),
         \A n, j, q : Owns(t, n, j, q)' <=> Owns(t, n, j, q) \/ (n = m /\ j = i /\ q = kd),
         kd = "lock" => CanLock(i) /\ TryLock(i),
         kd = "share" => CanShare(i) /\ TryShare(i)
  PROVE  OneOwner' /\ CountsExact'
<1> USE DEF IInv
<1>1. ASSUME NEW j, NEW q, j # i \/ q # kd PROVE Holding(j, q)' = Holding(j, q)
  <2>1. \A u \in Thread : \A n : Owns(u, n, j, q)' <=> Owns(u, n, j, q)
    BY <1>1, Frame
  <2>2. \A s : s \in Holding(j, q)' <=> s \in Holding(j, q)
    BY <2>1, HoldingIs
  <2>3. QED
    BY <2>2
<1>2. Holding(i, kd)' = Holding(i, kd) \cup {<<t, m>>} /\ <<t, m>> \notin Holding(i, kd)
  <2>1. \A s : s \in Holding(i, kd)' <=> s \in Holding(i, kd) \/ s = <<t, m>>
    BY Frame, HoldingIs
  <2>2. <<t, m>> \notin Holding(i, kd)
    BY HoldingIs
  <2>3. QED
    BY <2>1, <2>2
<1>3. Instance' = Instance
  BY DEF Instance
<1>4. CASE kd = "lock"
  <2>1. /\ lockHeld' = [lockHeld EXCEPT ![i] = TRUE] /\ shareCount' = shareCount
        /\ ~lockHeld[i] /\ shareCount[i] = 0
    BY <1>4 DEF CanLock, TryLock
  <2>2. Holding(i, "lock")' = {<<t, m>>}
    BY <1>2, <1>4, <2>1 DEF CountsExact
  <2>3. \A j : Holding(j, "share")' = Holding(j, "share")
    BY <1>1, <1>4
  <2>4. OneOwner'
    <3> SUFFICES ASSUME NEW j \in Instance
                 PROVE  /\ \A r, s \in Holding(j, "lock")' : r = s
                        /\ IsFiniteSet(Holding(j, "share")')
                        /\ lockHeld'[j] => shareCount'[j] = 0
      BY <1>3 DEF OneOwner
    <3>1. j # i => Holding(j, "lock")' = Holding(j, "lock")
      BY <1>1
    <3>2. \A r, s \in Holding(j, "lock")' : r = s
      BY <2>2, <3>1 DEF OneOwner
    <3>3. IsFiniteSet(Holding(j, "share")')
      BY <2>3 DEF OneOwner
    <3>4. lockHeld'[j] => shareCount'[j] = 0
      BY <2>1 DEF OneOwner, Typing
    <3>5. QED
      BY <3>2, <3>3, <3>4
  <2>5. CountsExact'
    BY <1>1, <1>3, <1>4, <2>1, <2>2, <2>3 DEF CountsExact, Typing
  <2>6. QED
    BY <2>4, <2>5
<1>5. CASE kd = "share"
  <2>1. shareCount' = [shareCount EXCEPT ![i] = @ + 1] /\ lockHeld' = lockHeld /\ ~lockHeld[i]
    BY <1>5 DEF CanShare, TryShare
  <2>2. \A j : Holding(j, "lock")' = Holding(j, "lock")
    BY <1>1, <1>5
  <2>3. /\ IsFiniteSet(Holding(i, "share"))'
        /\ Cardinality(Holding(i, "share"))' = Cardinality(Holding(i, "share")) + 1
    BY <1>2, <1>5, FS_AddElement DEF OneOwner
  <2>4. OneOwner'
    BY <1>1, <1>3, <1>5, <2>1, <2>2, <2>3 DEF OneOwner, Typing
  <2>5. CountsExact'
    BY <1>1, <1>3, <1>5, <2>1, <2>2, <2>3 DEF CountsExact, Typing
  <2>6. QED
    BY <2>4, <2>5
<1>6. QED
  BY <1>4, <1>5

\* A release is of a claim that is out, so the counter is positive and the
\* flag up.
LEMMA Lose ==
  ASSUME IInv, prog' = prog, NEW t \in Thread, NEW m, NEW i \in Instance, NEW kd \in {"lock", "share"},
         \A u \in Thread \ {t} : Same(u),
         Owns(t, m, i, kd),
         \A n, j, q : Owns(t, n, j, q)' <=> Owns(t, n, j, q) /\ n # m,
         kd = "lock" => Unlock(i),
         kd = "share" => Unshare(i)
  PROVE  OneOwner' /\ CountsExact'
<1> USE DEF IInv
<1>1. ASSUME NEW j, NEW q, j # i \/ q # kd PROVE Holding(j, q)' = Holding(j, q)
  <2>1. ~Owns(t, m, j, q)
    BY <1>1 DEF Owns
  <2>2. QED
    BY <2>1, Frame, HoldingIs
<1>2. Holding(i, kd)' = Holding(i, kd) \ {<<t, m>>} /\ <<t, m>> \in Holding(i, kd)
  <2>1. \A s : s \in Holding(i, kd)' <=> s \in Holding(i, kd) /\ s # <<t, m>>
    BY Frame, HoldingIs
  <2>2. <<t, m>> \in Holding(i, kd)
    BY HoldingIs
  <2>3. QED
    BY <2>1, <2>2
<1>3. Instance' = Instance
  BY DEF Instance
<1>4. CASE kd = "lock"
  <2>1. lockHeld' = [lockHeld EXCEPT ![i] = FALSE] /\ shareCount' = shareCount
    BY <1>4 DEF Unlock
  <2>2. Holding(i, "lock")' = {}
    BY <1>2, <1>4 DEF OneOwner
  <2>3. \A j : Holding(j, "share")' = Holding(j, "share")
    BY <1>1, <1>4
  <2>4. OneOwner'
    BY <1>1, <1>3, <1>4, <2>1, <2>2, <2>3 DEF OneOwner, Typing
  <2>5. CountsExact'
    BY <1>1, <1>3, <1>4, <2>1, <2>2, <2>3 DEF CountsExact, Typing
  <2>6. QED
    BY <2>4, <2>5
<1>5. CASE kd = "share"
  <2>1. /\ IsFiniteSet(Holding(i, "share"))'
        /\ Cardinality(Holding(i, "share"))' = Cardinality(Holding(i, "share")) - 1
        /\ Holding(i, "share") # {}
    BY <1>2, <1>5, FS_RemoveElement DEF OneOwner
  <2>2. shareCount[i] \in Nat /\ shareCount[i] # 0 /\ ~lockHeld[i]
    BY <2>1, FS_EmptySet DEF OneOwner, CountsExact, Typing
  <2>3. shareCount' = [shareCount EXCEPT ![i] = @ - 1] /\ lockHeld' = lockHeld
    BY <1>5, <2>2 DEF Unshare
  <2>4. \A j : Holding(j, "lock")' = Holding(j, "lock")
    BY <1>1, <1>5
  <2>5. OneOwner'
    BY <1>1, <1>3, <1>5, <2>1, <2>2, <2>3, <2>4 DEF OneOwner, Typing
  <2>6. CountsExact'
    BY <1>1, <1>3, <1>5, <2>1, <2>2, <2>3, <2>4 DEF CountsExact, Typing
  <2>7. QED
    BY <2>5, <2>6
<1>6. QED
  BY <1>4, <1>5

-----------------------------------------------------------------------------
(* The actions *)

\* What a step of thread t does to the claims that are out: nothing, a claim
\* more on an instance that was free for it, or one less; a thread that goes on
\* to another traversal has none.
Keeps(t) == \A n, i, kd : Owns(t, n, i, kd)' <=> Owns(t, n, i, kd)
Gains(t) == \E m : \E i \in Instance : \E kd \in {"lock", "share"} :
               /\ kd = "lock" => CanLock(i)
               /\ kd = "share" => CanShare(i)
               /\ \A j, q : ~Owns(t, m, j, q)
               /\ \A n, j, q : Owns(t, n, j, q)' <=> Owns(t, n, j, q) \/ (n = m /\ j = i /\ q = kd)
Loses(t) == \E m, i, kd : /\ Owns(t, m, i, kd)
                          /\ \A n, j, q : Owns(t, n, j, q)' <=> Owns(t, n, j, q) /\ n # m
Books(t) == /\ \A u \in Thread \ {t} : Same(u)
            /\ at'[t] = at[t] \/ \A n, i, kd : ~Owns(t, n, i, kd)'
            /\ Keeps(t) \/ Gains(t) \/ Loses(t)

\* A thread that is not done is at a traversal of its program.
LEMMA AtTraversal ==
  ASSUME Typing, NEW t \in Thread, ~Done(t)
  PROVE  /\ Trav(t).claims \in Seq([pool : Pool, kind : {"lock", "share"}])
         /\ Trav(t).gets \in Seq(Chan) /\ Trav(t).puts \in Seq(Chan)
         /\ \A n \in DOMAIN Trav(t).claims : /\ Trav(t).claims[n].pool \in Pool
                                             /\ Trav(t).claims[n].kind \in {"lock", "share"}
<1>1. at[t] \in 1 .. Len(prog[t]) /\ prog[t] \in Seq(Traversal)
  BY DEF Typing, Done
<1>2. Trav(t) \in Traversal
  BY <1>1 DEF Trav
<1> DEFINE R == [pool : Pool, kind : {"lock", "share"}]
<1>3. Trav(t).claims \in Seq(R) /\ Trav(t).gets \in Seq(Chan) /\ Trav(t).puts \in Seq(Chan)
  BY <1>2 DEF Traversal
<1>4. \A c \in R : c.pool \in Pool /\ c.kind \in {"lock", "share"}
  OBVIOUS
<1>5. \A n \in DOMAIN Trav(t).claims : Trav(t).claims[n] \in R
  <2> HIDE DEF R
  <2>1. QED
    BY <1>3
<1>6. QED
  BY <1>3, <1>4, <1>5

\* The first statement of a phase that has any.
LEMMA FirstIndex ==
  ASSUME NEW S, NEW list \in Seq(S)
  PROVE  Index(1, list)
BY DEF Index

\* A loop over a phase's statements goes to the next one or to the next phase.
LEMMA LoopMoves ==
  ASSUME Typing, NEW t \in Thread, NEW S, NEW list \in Seq(S), list # <<>>,
         Index(k[t], list), NEW ph, Loop(t, list, ph)
  PROVE  \/ phase' = phase /\ k' = [k EXCEPT ![t] = @ + 1] /\ Index(k[t] + 1, list)
         \/ phase' = [phase EXCEPT ![t] = ph] /\ k' = [k EXCEPT ![t] = 1] /\ k[t] = Len(list)
<1>1. k[t] \in 1 .. Len(list) /\ Len(list) \in Nat
  BY DEF Index
<1>2. CASE k[t] < Len(list)
  BY <1>1, <1>2 DEF Loop, Index
<1>3. CASE ~(k[t] < Len(list))
  BY <1>1, <1>3 DEF Loop, Goto
<1>4. QED
  BY <1>2, <1>3

\* A step between the claims and the releases of a traversal: what thread t
\* holds is what it held.
LEMMA Working ==
  ASSUME IInv, NEW t \in Thread, ~Done(t), phase[t] \in {"claim", "get", "body", "put"},
         UNCHANGED <<poolVars, prog, at, cid>>,
         box' \in [Chan -> {0, 1}], aborted' \in BOOLEAN,
         NEW ph \in Phase \ {"next", "claim"}, phase' = [phase EXCEPT ![t] = ph],
         NEW n \in Nat, k' = [k EXCEPT ![t] = n],
         Len(cid[t]) = Len(Trav(t).claims),
         ph = "get" => Index(n, Trav(t).gets),
         ph = "put" => Index(n, Trav(t).puts),
         ph = "release" => n = 1
  PROVE  IInv' /\ Books(t)
<1> USE DEF IInv
<1>1. prog' = prog /\ phase'[t] = ph /\ k'[t] = n /\ at'[t] = at[t] /\ cid'[t] = cid[t]
  BY DEF Typing
<1>2. Typing'
  BY <1>1 DEF Typing, poolVars, Instance
<1>3. \A u \in Thread \ {t} : Same(u)
  BY DEF Same, Typing
<1>4. Trav(t)' = Trav(t) /\ Done(t)' = Done(t) /\ \A m : Res(t, m)' = Res(t, m) /\ Kind(t, m)' = Kind(t, m)
  BY <1>1 DEF Trav, Done, Res, Kind
<1>5. Inside(t)
  BY DEF Position
<1>6. Inside(t)'
  <2>1. ph = "release" => Index(n, Trav(t).claims)
    BY AtTraversal, FirstIndex
  <2>2. QED
    BY <1>1, <1>4, <1>5, <2>1 DEF Inside, Index, Instance
<1>7. Position'
  BY <1>1, <1>3, <1>6, Others
<1>8. Holds(t)' = Holds(t)
  <2>1. DOMAIN cid[t] = 1 .. Len(cid[t]) /\ Len(cid[t]) \in Nat
    BY DEF Typing
  <2>2. \A m \in DOMAIN cid[t] : ph = "release" => m >= n
    BY <2>1
  <2>3. Holds(t) = {m \in DOMAIN cid[t] : cid[t][m] # -1}
    BY DEF Holds
  <2>4. Holds(t)' = {m \in DOMAIN cid[t] : cid[t][m] # -1}
    BY <1>1, <2>2 DEF Holds
  <2>5. QED
    BY <2>3, <2>4
<1>9. \A m, i, kd : Owns(t, m, i, kd)' <=> Owns(t, m, i, kd)
  BY <1>4, <1>8 DEF Owns
<1>10. OneOwner' /\ CountsExact'
  BY <1>1, <1>3, <1>9, Quiet DEF poolVars
<1>11. Books(t)
  BY <1>1, <1>3, <1>9 DEF Books, Keeps
<1>12. QED
  BY <1>2, <1>7, <1>10, <1>11

\* The steps that neither claim nor release.
LEMMA WorkPreserves ==
  ASSUME IInv, NEW t \in Thread, NoClaim(t) \/ Get(t) \/ NoGet(t) \/ Body(t) \/ Put(t) \/ NoPut(t)
  PROVE  IInv' /\ Books(t)
<1> USE DEF IInv
<1>1. /\ UNCHANGED <<poolVars, prog, at, cid>> /\ ~Done(t)
      /\ phase[t] \in {"claim", "get", "body", "put"}
      /\ aborted' \in BOOLEAN
  BY DEF NoClaim, Get, NoGet, Body, Put, NoPut, Skip, At, Typing
<1>2. Inside(t)
  BY <1>1 DEF Position
<1>3. /\ Trav(t).claims \in Seq([pool : Pool, kind : {"lock", "share"}])
      /\ Trav(t).gets \in Seq(Chan) /\ Trav(t).puts \in Seq(Chan)
  BY <1>1, AtTraversal
<1>4. Index(1, Trav(t).gets) /\ Index(1, Trav(t).puts)
  BY <1>3, FirstIndex
<1>5. k[t] \in Nat /\ phase = [phase EXCEPT ![t] = phase[t]]
  BY DEF Typing
<1>6. CASE NoClaim(t)
  <2>1. /\ phase' = [phase EXCEPT ![t] = "get"] /\ k' = [k EXCEPT ![t] = 1]
        /\ box' \in [Chan -> {0, 1}] /\ phase[t] = "claim" /\ Trav(t).claims = <<>>
    BY <1>6 DEF NoClaim, Skip, Goto, At, Typing
  <2>2. Len(cid[t]) = Len(Trav(t).claims)
    <3>1. DOMAIN cid[t] = 1 .. Len(cid[t]) /\ Len(cid[t]) \in Nat
      BY DEF Typing
    <3>2. Len(Trav(t).claims) = 0 /\ DOMAIN Trav(t).claims = 1 .. 0
      BY <2>1
    <3>3. 1 \notin DOMAIN cid[t]
      BY <1>2, <3>2 DEF Inside
    <3>4. QED
      BY <3>1, <3>2, <3>3
  <2>3. QED
    BY <1>1, <1>4, <2>1, <2>2, Working DEF Phase
<1>7. CASE Get(t)
  <2>1. /\ phase[t] = "get" /\ Trav(t).gets # <<>> /\ Loop(t, Trav(t).gets, "body")
        /\ Index(k[t], Trav(t).gets)
    BY <1>2, <1>7 DEF Get, At, Inside
  <2>2. box' \in [Chan -> {0, 1}]
    <3> DEFINE c == Trav(t).gets[k[t]]
    <3>1. c \in Chan
      BY <1>3, <2>1 DEF Index
    <3>2. box[c] > 0 /\ box' = [box EXCEPT ![c] = box[c] - 1]
      BY <1>7 DEF Get
    <3>3. box[c] \in {0, 1}
      BY <3>1 DEF Typing
    <3>4. QED
      BY <3>1, <3>2, <3>3 DEF Typing
  <2>3. \/ phase' = phase /\ k' = [k EXCEPT ![t] = @ + 1] /\ Index(k[t] + 1, Trav(t).gets)
        \/ phase' = [phase EXCEPT ![t] = "body"] /\ k' = [k EXCEPT ![t] = 1]
    BY <1>3, <2>1, LoopMoves
  <2>4. k[t] + 1 \in Nat /\ "get" \in Phase \ {"next", "claim"} /\ "body" \in Phase \ {"next", "claim"}
    BY <1>5 DEF Phase
  <2>5. Len(cid[t]) = Len(Trav(t).claims)
    BY <1>2, <2>1 DEF Inside
  <2>6. CASE phase' = phase /\ k' = [k EXCEPT ![t] = @ + 1] /\ Index(k[t] + 1, Trav(t).gets)
    BY <1>1, <1>5, <2>1, <2>2, <2>4, <2>5, <2>6, Working
  <2>7. CASE phase' = [phase EXCEPT ![t] = "body"] /\ k' = [k EXCEPT ![t] = 1]
    BY <1>1, <2>2, <2>4, <2>5, <2>7, Working
  <2>8. QED
    BY <2>3, <2>6, <2>7
<1>8. CASE Put(t)
  <2>1. /\ phase[t] = "put" /\ Trav(t).puts # <<>> /\ Loop(t, Trav(t).puts, "release")
        /\ Index(k[t], Trav(t).puts)
    BY <1>2, <1>8 DEF Put, At, Inside
  <2>2. box' \in [Chan -> {0, 1}]
    <3> DEFINE c == Trav(t).puts[k[t]]
    <3>1. c \in Chan
      BY <1>3, <2>1 DEF Index
    <3>2. box[c] < 1 /\ box' = [box EXCEPT ![c] = box[c] + 1]
      BY <1>8 DEF Put
    <3>3. box[c] \in {0, 1}
      BY <3>1 DEF Typing
    <3>4. QED
      BY <3>1, <3>2, <3>3 DEF Typing
  <2>3. \/ phase' = phase /\ k' = [k EXCEPT ![t] = @ + 1] /\ Index(k[t] + 1, Trav(t).puts)
        \/ phase' = [phase EXCEPT ![t] = "release"] /\ k' = [k EXCEPT ![t] = 1]
    BY <1>3, <2>1, LoopMoves
  <2>4. k[t] + 1 \in Nat /\ "put" \in Phase \ {"next", "claim"} /\ "release" \in Phase \ {"next", "claim"}
    BY <1>5 DEF Phase
  <2>5. Len(cid[t]) = Len(Trav(t).claims)
    BY <1>2, <2>1 DEF Inside
  <2>6. CASE phase' = phase /\ k' = [k EXCEPT ![t] = @ + 1] /\ Index(k[t] + 1, Trav(t).puts)
    BY <1>1, <1>5, <2>1, <2>2, <2>4, <2>5, <2>6, Working
  <2>7. CASE phase' = [phase EXCEPT ![t] = "release"] /\ k' = [k EXCEPT ![t] = 1]
    BY <1>1, <2>2, <2>4, <2>5, <2>7, Working
  <2>8. QED
    BY <2>3, <2>6, <2>7
<1>9. CASE NoGet(t) \/ Body(t) \/ NoPut(t)
  <2>1. /\ k' = [k EXCEPT ![t] = 1] /\ box' \in [Chan -> {0, 1}]
        /\ \E ph \in {"body", "put", "release"} : phase' = [phase EXCEPT ![t] = ph]
    BY <1>9 DEF NoGet, Body, NoPut, Skip, Goto, Typing
  <2>2. Len(cid[t]) = Len(Trav(t).claims)
    BY <1>2, <1>9 DEF Inside, NoGet, Body, NoPut, Skip, At
  <2>3. QED
    BY <1>1, <1>4, <2>1, <2>2, Working DEF Phase
<1>10. QED
  BY <1>6, <1>7, <1>8, <1>9

\* A traversal begins with no claim.
LEMMA EnterPreserves ==
  ASSUME IInv, NEW t \in Thread, Enter(t)
  PROVE  IInv' /\ Books(t)
<1> USE DEF IInv
<1>1. /\ UNCHANGED <<poolVars, prog, at, box, aborted>> /\ ~Done(t) /\ phase[t] = "next"
      /\ phase' = [phase EXCEPT ![t] = "claim"] /\ k' = [k EXCEPT ![t] = 1]
      /\ cid' = [cid EXCEPT ![t] = <<>>]
  BY DEF Enter, At, Goto
<1>2. phase'[t] = "claim" /\ k'[t] = 1 /\ cid'[t] = <<>> /\ Done(t)' = Done(t) /\ Trav(t)' = Trav(t)
  BY <1>1 DEF Typing, Done, Trav
<1>3. Typing'
  <2>1. <<>> \in Seq(Nat \cup {-1})
    OBVIOUS
  <2>2. QED
    BY <1>1, <2>1 DEF Typing, poolVars, Phase, Instance
<1>4. \A u \in Thread \ {t} : Same(u)
  BY <1>1 DEF Same, Typing
<1>5. Inside(t)'
  <2>1. Index(1, Trav(t).claims)
    BY <1>1, AtTraversal, FirstIndex
  <2>2. Len(<<>>) = 0 /\ DOMAIN <<>> = {}
    OBVIOUS
  <2>3. QED
    BY <1>1, <1>2, <2>1, <2>2 DEF Inside
<1>6. Position'
  BY <1>1, <1>4, <1>5, Others
<1>7. Holds(t) = {} /\ Holds(t)' = {}
  <2>1. DOMAIN <<>> = {}
    OBVIOUS
  <2>2. QED
    BY <1>1, <1>2, <2>1 DEF Holds
<1>8. OneOwner' /\ CountsExact'
  BY <1>1, <1>4, <1>7, Quiet DEF Owns
<1>9. Books(t)
  BY <1>4, <1>7 DEF Books, Keeps, Owns
<1>10. QED
  BY <1>3, <1>6, <1>8, <1>9

\* A thread that goes on to its next traversal holds nothing.
LEMMA Advanced ==
  ASSUME IInv, NEW t \in Thread, Goto(t, "next"), at' = [at EXCEPT ![t] = @ + 1],
         prog' = prog, cid' = cid
  PROVE  /\ at' \in [Thread -> Nat \ {0}] /\ phase' \in [Thread -> Phase] /\ k' \in [Thread -> Nat]
         /\ \A u \in Thread \ {t} : Same(u)
         /\ Position' /\ Holds(t)' = {}
<1> USE DEF IInv
<1>1. phase' = [phase EXCEPT ![t] = "next"] /\ k' = [k EXCEPT ![t] = 1]
  BY DEF Goto
<1>2. at' \in [Thread -> Nat \ {0}] /\ phase' \in [Thread -> Phase] /\ phase'[t] = "next"
      /\ k' \in [Thread -> Nat]
  BY <1>1 DEF Typing, Phase
<1>3. \A u \in Thread \ {t} : Same(u)
  BY <1>1 DEF Same, Typing
<1>4. Position'
  BY <1>2, <1>3, Others
<1>5. Holds(t)' = {}
  BY <1>2 DEF Holds
<1>6. QED
  BY <1>2, <1>3, <1>4, <1>5

\* A traversal that claims nothing has nothing to release.
LEMMA LeavePreserves ==
  ASSUME IInv, NEW t \in Thread, Leave(t)
  PROVE  IInv' /\ Books(t)
<1> USE DEF IInv
<1>1. /\ UNCHANGED <<poolVars, prog, cid, box, aborted>> /\ ~Done(t) /\ phase[t] = "release"
      /\ Trav(t).claims = <<>>
      /\ Goto(t, "next") /\ at' = [at EXCEPT ![t] = @ + 1]
  BY DEF Leave, At
<1>2. /\ at' \in [Thread -> Nat \ {0}] /\ phase' \in [Thread -> Phase] /\ k' \in [Thread -> Nat]
      /\ \A u \in Thread \ {t} : Same(u)
      /\ Position' /\ Holds(t)' = {}
  BY <1>1, Advanced
<1>3. Typing'
  BY <1>1, <1>2 DEF Typing, poolVars, Instance
<1>4. Holds(t) = {}
  <2>1. DOMAIN cid[t] = {}
    BY <1>1 DEF Position, Inside
  <2>2. QED
    BY <2>1 DEF Holds
<1>5. OneOwner' /\ CountsExact'
  BY <1>1, <1>2, <1>4, Quiet DEF Owns
<1>6. Books(t)
  BY <1>2, <1>4 DEF Books, Keeps, Owns
<1>7. QED
  BY <1>2, <1>3, <1>5, <1>6

\* claim() or claim_shared() grants an instance that was free for it, or
\* nothing.
LEMMA ClaimPreserves ==
  ASSUME IInv, NEW t \in Thread, Claim(t)
  PROVE  IInv' /\ Books(t)
<1> USE DEF IInv
<1> DEFINE c == Trav(t).claims[k[t]]
           m == IF c.kind = "lock" THEN ClaimId(c.pool) ELSE ClaimSharedId(c.pool)
           i == <<c.pool, m>>
<1>1. /\ UNCHANGED <<prog, at, box, aborted>> /\ ~Done(t) /\ phase[t] = "claim"
      /\ Trav(t).claims # <<>>
      /\ cid' = [cid EXCEPT ![t] = Append(@, m)]
      /\ IF m = -1 THEN UNCHANGED poolVars
         ELSE IF c.kind = "lock" THEN TryLock(i) ELSE TryShare(i)
      /\ Loop(t, Trav(t).claims, "get")
  BY DEF Claim, At
<1>2. Inside(t)
  BY <1>1 DEF Position
<1> DEFINE cs == Trav(t).claims
<1>3. /\ cs \in Seq([pool : Pool, kind : {"lock", "share"}])
      /\ k[t] \in DOMAIN cs /\ c.pool \in Pool /\ c.kind \in {"lock", "share"}
      /\ k[t] = Len(cid[t]) + 1
      /\ Trav(t).gets \in Seq(Chan)
  BY <1>1, <1>2, AtTraversal DEF Inside, Index
<1>4. /\ m \in Nat \cup {-1}
      /\ m # -1 => i \in Instance
      /\ m # -1 /\ c.kind = "lock" => CanLock(i)
      /\ m # -1 /\ c.kind = "share" => CanShare(i)
  BY <1>3, ClaimedIsFree
<1> HIDE DEF m, c, cs
<1>5. /\ cid[t] \in Seq(Nat \cup {-1}) /\ Len(cid[t]) \in Nat /\ DOMAIN cid[t] = 1 .. Len(cid[t])
      /\ cid'[t] = Append(cid[t], m) /\ DOMAIN cid'[t] = 1 .. k[t]
      /\ cid'[t] \in Seq(Nat \cup {-1})
      /\ cid'[t][k[t]] = m
      /\ \A n \in DOMAIN cid[t] : cid'[t][n] = cid[t][n]
  BY <1>1, <1>3, <1>4 DEF Typing
<1>6. \/ phase' = phase /\ k' = [k EXCEPT ![t] = @ + 1] /\ Index(k[t] + 1, cs)
      \/ phase' = [phase EXCEPT ![t] = "get"] /\ k' = [k EXCEPT ![t] = 1] /\ k[t] = Len(cs)
  <2>1. cs # <<>> /\ Loop(t, cs, "get") /\ Index(k[t], cs)
    BY <1>1, <1>3 DEF cs, Index
  <2>2. QED
    BY <1>3, <2>1, LoopMoves
<1>7. /\ k'[t] \in Nat /\ k' \in [Thread -> Nat] /\ phase' \in [Thread -> Phase]
      /\ \/ phase'[t] = "claim" /\ k'[t] = k[t] + 1 /\ Index(k[t] + 1, cs)
         \/ phase'[t] = "get" /\ k'[t] = 1 /\ k[t] = Len(cs)
  <2>1. k[t] \in Nat /\ phase \in [Thread -> Phase] /\ k \in [Thread -> Nat] /\ "get" \in Phase
    BY DEF Typing, Phase
  <2>2. CASE phase' = phase /\ k' = [k EXCEPT ![t] = @ + 1] /\ Index(k[t] + 1, cs)
    BY <1>1, <2>1, <2>2
  <2>3. CASE phase' = [phase EXCEPT ![t] = "get"] /\ k' = [k EXCEPT ![t] = 1] /\ k[t] = Len(cs)
    BY <2>1, <2>3
  <2>4. QED
    BY <1>6, <2>2, <2>3
<1>8. \A u \in Thread \ {t} : Same(u)
  BY <1>1, <1>6 DEF Same, Typing
<1>9. Typing'
  <2>1. /\ lockHeld' \in [Instance -> BOOLEAN] /\ shareCount' \in [Instance -> Nat]
        /\ lockSem' \in [Instance -> Nat]
    <3>1. CASE UNCHANGED poolVars
      BY <3>1 DEF poolVars, Typing
    <3>2. CASE m # -1 /\ c.kind = "lock"
      <4>1. lockHeld' = [lockHeld EXCEPT ![i] = TRUE] /\ UNCHANGED <<shareCount, lockSem>>
        BY <1>1, <1>4, <3>2 DEF TryLock
      <4>2. QED
        BY <4>1 DEF Typing
    <3>3. CASE m # -1 /\ c.kind = "share"
      <4>1. shareCount' = [shareCount EXCEPT ![i] = @ + 1] /\ UNCHANGED <<lockHeld, lockSem>>
        BY <1>1, <1>4, <3>3 DEF TryShare
      <4>2. QED
        BY <1>4, <3>3, <4>1 DEF Typing
    <3>4. QED
      BY <1>1, <1>3, <3>1, <3>2, <3>3
  <2>2. cid' \in [Thread -> Seq(Nat \cup {-1})]
    BY <1>1, <1>5 DEF Typing
  <2>3. QED
    BY <1>1, <1>7, <2>1, <2>2 DEF Typing, Instance
<1>10. Trav(t)' = Trav(t) /\ Done(t)' = Done(t) /\ \A n : Kind(t, n)' = Kind(t, n)
  BY <1>1 DEF Trav, Done, Kind
<1>11. /\ \A n \in DOMAIN cid[t] : Res(t, n)' = Res(t, n)
       /\ \A n : n = k[t] => Kind(t, n) = c.kind /\ Res(t, n)' = i
  <2>1. \A n : n = k[t] => Kind(t, n) = c.kind
    BY DEF Kind, c
  <2>2. \A n : Res(t, n)' = <<Trav(t).claims[n].pool, cid'[t][n]>>
    BY <1>10 DEF Res
  <2>3. \A n : n = k[t] => Res(t, n)' = <<c.pool, m>>
    BY <1>5, <2>2 DEF c
  <2>4. \A n \in DOMAIN cid[t] : Res(t, n)' = Res(t, n)
    BY <1>5, <2>2 DEF Res
  <2>5. QED
    BY <2>1, <2>3, <2>4
<1>12. Position'
  <2>1. \A n \in DOMAIN cid'[t] : n \in DOMAIN cs /\ (cid'[t][n] # -1 => Res(t, n)' \in Instance)
    <3>1. SUFFICES ASSUME NEW n \in DOMAIN cid'[t]
                   PROVE  n \in DOMAIN cs /\ (cid'[t][n] # -1 => Res(t, n)' \in Instance)
      OBVIOUS
    <3>2. CASE n = k[t]
      BY <1>3, <1>4, <1>5, <1>11, <3>2
    <3>3. CASE n # k[t]
      <4>1. n \in DOMAIN cid[t]
        BY <1>3, <1>5, <3>3
      <4>2. QED
        BY <1>2, <1>5, <1>11, <4>1 DEF Inside, cs
    <3>4. QED
      BY <3>2, <3>3
  <2>2. Len(cid'[t]) = k[t]
    BY <1>3, <1>4, <1>5
  <2>3. Index(1, Trav(t).gets)
    BY <1>3, FirstIndex
  <2>4. Inside(t)'
    BY <1>1, <1>7, <1>10, <2>1, <2>2, <2>3 DEF Inside, cs, Instance
  <2>5. QED
    BY <1>1, <1>8, <2>4, Others
<1>13. Holds(t)' = Holds(t) \cup (IF m = -1 THEN {} ELSE {k[t]})
  <2>1. Holds(t) = {n \in DOMAIN cid[t] : cid[t][n] # -1}
    BY <1>1 DEF Holds
  <2>2. Holds(t)' = {n \in DOMAIN cid'[t] : cid'[t][n] # -1}
    BY <1>7 DEF Holds
  <2>3. QED
    BY <1>3, <1>5, <2>1, <2>2
<1>14. k[t] \notin Holds(t) /\ Holds(t) \subseteq DOMAIN cid[t]
  BY <1>3, <1>5 DEF Holds
<1>15. OneOwner' /\ CountsExact' /\ Books(t)
  <2>1. CASE m = -1
    <3>1. \A n, j, q : Owns(t, n, j, q)' <=> Owns(t, n, j, q)
      BY <1>10, <1>11, <1>13, <1>14, <2>1 DEF Owns
    <3>2. OneOwner' /\ CountsExact'
      BY <1>1, <1>8, <2>1, <3>1, Quiet
    <3>3. Books(t)
      BY <1>1, <1>8, <3>1 DEF Books, Keeps
    <3>4. QED
      BY <3>2, <3>3
  <2>2. CASE m # -1
    <3>1. \A n, j, q : Owns(t, n, j, q)' <=> Owns(t, n, j, q) \/ (n = k[t] /\ j = i /\ q = c.kind)
      <4> SUFFICES ASSUME NEW n, NEW j, NEW q
                   PROVE  Owns(t, n, j, q)' <=> Owns(t, n, j, q) \/ (n = k[t] /\ j = i /\ q = c.kind)
        OBVIOUS
      <4> HIDE DEF i
      <4>1. CASE n = k[t]
        <5>1. n \in Holds(t)' /\ n \notin Holds(t) /\ Kind(t, n)' = c.kind /\ Res(t, n)' = i
          <6> USE DEF i
          <6>1. QED
            BY <1>10, <1>11, <1>13, <1>14, <2>2, <4>1
        <5>2. QED
          BY <4>1, <5>1 DEF Owns
      <4>2. CASE n # k[t]
        <5>1. n \in Holds(t)' <=> n \in Holds(t)
          BY <1>13, <4>2
        <5>2. n \in Holds(t) => Res(t, n)' = Res(t, n) /\ Kind(t, n)' = Kind(t, n)
          BY <1>10, <1>11, <1>14
        <5>3. QED
          BY <4>2, <5>1, <5>2 DEF Owns
      <4>3. QED
        BY <4>1, <4>2
    <3>2. ~Owns(t, k[t], i, c.kind)
      BY <1>14 DEF Owns
    <3>3. /\ c.kind = "lock" => CanLock(i) /\ TryLock(i)
          /\ c.kind = "share" => CanShare(i) /\ TryShare(i)
      BY <1>1, <1>4, <2>2
    <3>4. i \in Instance /\ c.kind \in {"lock", "share"} /\ prog' = prog
      BY <1>1, <1>3, <1>4, <2>2
    <3>5. OneOwner' /\ CountsExact'
      BY <1>8, <3>1, <3>2, <3>3, <3>4, Gain
    <3>6. \A j, q : ~Owns(t, k[t], j, q)
      BY <1>14 DEF Owns
    <3>7. Gains(t)
      <4> HIDE DEF i
      <4>1. QED
        BY <3>1, <3>3, <3>4, <3>6 DEF Gains
    <3>8. QED
      BY <1>1, <1>8, <3>5, <3>7 DEF Books
  <2>3. QED
    BY <2>1, <2>2
<1>16. QED
  BY <1>9, <1>12, <1>15

\* Where a release statement leaves the thread: it holds what it held, without
\* the claim released.
LEMMA ReleaseMoves ==
  ASSUME IInv, NEW t \in Thread, Release(t)
  PROVE  /\ at' \in [Thread -> Nat \ {0}] /\ phase' \in [Thread -> Phase] /\ k' \in [Thread -> Nat]
         /\ \A u \in Thread \ {t} : Same(u)
         /\ Position'
         /\ \A n, i, kd : Owns(t, n, i, kd)' <=> Owns(t, n, i, kd) /\ n # k[t]
         /\ at'[t] = at[t] \/ \A n, i, kd : ~Owns(t, n, i, kd)'
<1> USE DEF IInv
<1>1. prog' = prog /\ cid' = cid /\ phase[t] = "release" /\ ~Done(t) /\ Trav(t).claims # <<>>
  BY DEF Release, At
<1>2. Inside(t)
  BY <1>1 DEF Position
<1> DEFINE len == Len(Trav(t).claims)
<1>3. /\ len \in Nat /\ DOMAIN Trav(t).claims = 1 .. len /\ k[t] \in 1 .. len
      /\ DOMAIN cid[t] = 1 .. len
  <2>1. Trav(t).claims \in Seq([pool : Pool, kind : {"lock", "share"}])
    BY <1>1, AtTraversal
  <2>2. cid[t] \in Seq(Nat \cup {-1}) /\ Len(cid[t]) = len
    BY <1>1, <1>2 DEF Typing, Inside
  <2>3. k[t] \in DOMAIN Trav(t).claims
    BY <1>1, <1>2 DEF Inside, Index
  <2>4. QED
    BY <2>1, <2>2, <2>3
<1>4. Holds(t) = {n \in 1 .. len : cid[t][n] # -1 /\ n >= k[t]}
  BY <1>1, <1>3 DEF Holds
<1>5. CASE k[t] < len
  <2>1. at' = at /\ phase' = phase /\ k' = [k EXCEPT ![t] = @ + 1]
    BY <1>5 DEF Release
  <2>2. k' \in [Thread -> Nat] /\ k'[t] = k[t] + 1 /\ phase'[t] = "release"
    BY <1>1, <2>1 DEF Typing
  <2>3. \A u \in Thread \ {t} : Same(u)
    BY <1>1, <2>1 DEF Same, Typing
  <2>4. Trav(t)' = Trav(t) /\ Done(t)' = Done(t) /\ \A n : Res(t, n)' = Res(t, n) /\ Kind(t, n)' = Kind(t, n)
    BY <1>1, <2>1 DEF Trav, Done, Res, Kind
  <2>5. Inside(t)'
    BY <1>1, <1>2, <1>3, <1>5, <2>1, <2>2, <2>4 DEF Inside, Index, Instance
  <2>6. Position'
    BY <1>1, <2>3, <2>5, Others
  <2>7. Holds(t)' = {n \in 1 .. len : cid[t][n] # -1 /\ n >= k[t] + 1}
    BY <1>1, <1>3, <2>2 DEF Holds
  <2>8. \A n : n \in Holds(t)' <=> n \in Holds(t) /\ n # k[t]
    BY <1>3, <1>4, <2>7
  <2>9. \A n, i, kd : Owns(t, n, i, kd)' <=> Owns(t, n, i, kd) /\ n # k[t]
    BY <2>4, <2>8 DEF Owns
  <2>10. QED
    BY <2>1, <2>2, <2>3, <2>6, <2>9 DEF Typing
<1>6. CASE ~(k[t] < len)
  <2>1. Goto(t, "next") /\ at' = [at EXCEPT ![t] = @ + 1]
    BY <1>6 DEF Release
  <2>2. /\ at' \in [Thread -> Nat \ {0}] /\ phase' \in [Thread -> Phase] /\ k' \in [Thread -> Nat]
        /\ \A u \in Thread \ {t} : Same(u)
        /\ Position' /\ Holds(t)' = {}
    BY <1>1, <2>1, Advanced
  <2>3. \A n \in Holds(t) : n = k[t]
    BY <1>3, <1>4, <1>6
  <2>4. \A n, i, kd : Owns(t, n, i, kd)' <=> Owns(t, n, i, kd) /\ n # k[t]
    BY <2>2, <2>3 DEF Owns
  <2>5. QED
    BY <2>2, <2>4 DEF Owns
<1>7. QED
  BY <1>5, <1>6

\* unlock() and unshare() give back what was claimed; a refused claim gives
\* back nothing.
LEMMA ReleasePreserves ==
  ASSUME IInv, NEW t \in Thread, Release(t)
  PROVE  IInv' /\ Books(t)
<1> USE DEF IInv
<1> DEFINE c == Trav(t).claims[k[t]]
           m == cid[t][k[t]]
           i == <<c.pool, m>>
<1>1. /\ UNCHANGED <<prog, cid, box>> /\ ~Done(t) /\ phase[t] = "release"
      /\ Trav(t).claims # <<>> /\ aborted' \in BOOLEAN
      /\ IF m # -1 THEN IF c.kind = "lock" THEN Unlock(i) ELSE Unshare(i)
                   ELSE UNCHANGED poolVars
  BY DEF Release, At
<1>2. /\ at' \in [Thread -> Nat \ {0}] /\ phase' \in [Thread -> Phase] /\ k' \in [Thread -> Nat]
      /\ \A u \in Thread \ {t} : Same(u)
      /\ Position'
      /\ \A n, j, q : Owns(t, n, j, q)' <=> Owns(t, n, j, q) /\ n # k[t]
      /\ at'[t] = at[t] \/ \A n, j, q : ~Owns(t, n, j, q)'
  BY ReleaseMoves
<1>3. Inside(t)
  BY <1>1 DEF Position
<1>4. /\ k[t] \in DOMAIN Trav(t).claims /\ k[t] \in DOMAIN cid[t] /\ k[t] \in Nat
      /\ c.kind \in {"lock", "share"}
      /\ m # -1 => i \in Instance
  <2>1. k[t] \in DOMAIN Trav(t).claims
    BY <1>1, <1>3 DEF Inside, Index
  <2>2. DOMAIN cid[t] = DOMAIN Trav(t).claims
    <3>1. Trav(t).claims \in Seq([pool : Pool, kind : {"lock", "share"}])
      BY <1>1, AtTraversal
    <3>2. cid[t] \in Seq(Nat \cup {-1}) /\ Len(cid[t]) = Len(Trav(t).claims)
      BY <1>1, <1>3 DEF Typing, Inside
    <3>3. QED
      BY <3>1, <3>2
  <2>3. Res(t, k[t]) = i
    BY DEF Res
  <2>4. c.kind \in {"lock", "share"} /\ k[t] \in Nat
    BY <1>1, <2>1, AtTraversal DEF Typing
  <2>5. m # -1 => i \in Instance
    BY <1>3, <2>1, <2>2, <2>3 DEF Inside
  <2>6. QED
    BY <2>1, <2>2, <2>4, <2>5
<1>5. m # -1 => Owns(t, k[t], i, c.kind)
  BY <1>1, <1>4 DEF Owns, Holds, Kind, Res
<1> HIDE DEF m, c
<1>6. Typing'
  <2>1. /\ lockHeld' \in [Instance -> BOOLEAN] /\ shareCount' \in [Instance -> Nat]
        /\ lockSem' \in [Instance -> Nat]
    <3>1. CASE UNCHANGED poolVars
      BY <3>1 DEF poolVars, Typing
    <3>2. CASE m # -1 /\ c.kind = "lock"
      <4>1. Unlock(i) /\ i \in Instance /\ lockSem[i] \in Nat
        BY <1>1, <1>4, <3>2 DEF Typing
      <4>2. QED
        BY <4>1 DEF Unlock, Typing
    <3>3. CASE m # -1 /\ c.kind = "share"
      <4>1. Unshare(i) /\ i \in Instance /\ shareCount[i] \in Nat
        BY <1>1, <1>4, <3>3 DEF Typing
      <4>2. QED
        BY <4>1 DEF Unshare, Typing
    <3>4. UNCHANGED poolVars \/ (m # -1 /\ c.kind = "lock") \/ (m # -1 /\ c.kind = "share")
      BY <1>1, <1>4
    <3>5. QED
      BY <3>1, <3>2, <3>3, <3>4
  <2>2. QED
    BY <1>1, <1>2, <2>1 DEF Typing, Instance
<1>7. OneOwner' /\ CountsExact' /\ Books(t)
  <2>1. CASE m = -1
    <3>1. k[t] \notin Holds(t)
      BY <2>1 DEF Holds, m
    <3>2. \A n, j, q : Owns(t, n, j, q)' <=> Owns(t, n, j, q)
      BY <1>2, <3>1 DEF Owns
    <3>3. QED
      BY <1>1, <1>2, <2>1, <3>2, Quiet DEF Books, Keeps
  <2>2. CASE m # -1
    <3>1. /\ c.kind = "lock" => Unlock(i)
          /\ c.kind = "share" => Unshare(i)
      BY <1>1, <2>2
    <3>2. OneOwner' /\ CountsExact'
      BY <1>1, <1>2, <1>4, <1>5, <2>2, <3>1, Lose
    <3>3. Loses(t)
      BY <1>2, <1>5, <2>2 DEF Loses
    <3>4. QED
      BY <1>2, <3>2, <3>3 DEF Books
  <2>3. QED
    BY <2>1, <2>2
<1>8. QED
  BY <1>2, <1>6, <1>7

-----------------------------------------------------------------------------
\* Before the fork nothing is claimed.
LEMMA InitInv == Init => IInv
<1> SUFFICES ASSUME Init PROVE IInv
  OBVIOUS
<1>1. prog \in [Thread -> Seq(Traversal)]
  <2>1. PICK scn \in Scenario : prog = [t \in Thread |-> IF t \in DOMAIN scn THEN scn[t] ELSE <<>>]
    BY DEF Init
  <2>2. \A t \in DOMAIN scn : scn[t] \in Seq(Traversal)
    BY ScenarioAssumption
  <2>3. <<>> \in Seq(Traversal)
    OBVIOUS
  <2>4. QED
    BY <2>1, <2>2, <2>3
<1>2. Typing
  <2>1. <<>> \in Seq(Nat \cup {-1})
    OBVIOUS
  <2>2. QED
    <3>1. aborted \in BOOLEAN
      BY DEF Init
    <3>2. lockHeld \in [Instance -> BOOLEAN] /\ shareCount \in [Instance -> Nat] /\ lockSem \in [Instance -> Nat]
      BY DEF Init, New
    <3>3. /\ at \in [Thread -> Nat \ {0}] /\ phase \in [Thread -> Phase] /\ k \in [Thread -> Nat]
          /\ cid \in [Thread -> Seq(Nat \cup {-1})] /\ box \in [Chan -> {0, 1}]
      BY <2>1 DEF Init, Phase
    <3>4. QED
      BY <1>1, <3>1, <3>2, <3>3 DEF Typing
<1>3. Position
  BY DEF Init, Position
<1>4. \A i, kd : Holding(i, kd) = {}
  <2>1. \A t \in Thread : Holds(t) = {}
    BY DEF Init, Holds
  <2>2. QED
    BY <2>1, HoldingIs DEF Owns
<1>5. OneOwner
  BY <1>4, FS_EmptySet DEF OneOwner, Init, New
<1>6. CountsExact
  BY <1>4, FS_EmptySet DEF CountsExact, Init, New
<1>7. QED
  BY <1>2, <1>3, <1>5, <1>6 DEF IInv

\* Every step of every thread keeps the invariant.
LEMMA NextInv == IInv /\ [Next]_vars => IInv'
<1> SUFFICES ASSUME IInv, [Next]_vars PROVE IInv'
  OBVIOUS
<1>1. ASSUME NEW t \in Thread, Run(t) PROVE IInv'
  BY <1>1, EnterPreserves, ClaimPreserves, WorkPreserves, ReleasePreserves, LeavePreserves DEF Run
<1>2. CASE UNCHANGED vars
  <2>1. /\ prog' = prog /\ at' = at /\ phase' = phase /\ k' = k /\ cid' = cid
        /\ UNCHANGED <<poolVars, box, aborted>>
    BY <1>2 DEF vars, threadVars
  <2>2. \A u \in Thread : Same(u)
    BY <2>1 DEF Same
  <2>3. Typing'
    BY <2>1 DEF IInv, Typing, poolVars, Instance
  <2>4. Position'
    BY <2>1, <2>2, Frame DEF IInv, Position
  <2>5. \A i, kd : Holding(i, kd)' = Holding(i, kd)
    BY <2>1, <2>2, Frame, HoldingIs
  <2>6. OneOwner' /\ CountsExact'
    BY <2>1, <2>5 DEF IInv, OneOwner, CountsExact, poolVars, Instance
  <2>7. QED
    BY <2>3, <2>4, <2>6 DEF IInv
<1>3. QED
  BY <1>1, <1>2 DEF Next

\* So it holds throughout.
LEMMA Invariance == Spec => []IInv
BY InitInv, NextInv, PTL DEF Spec

-----------------------------------------------------------------------------
(* Feasible forks *)

\* The claims the threads make together are finitely many.
LEMMA TogetherFinite ==
  ASSUME Typing, NEW f \in Places, NEW p \in Pool
  PROVE  IsFiniteSet(Together(f, p))
<1> DEFINE Of(u) == {u} \X Wanted(f, p, u)
           g == [u \in Thread |-> Of(u)]
           All == {Of(u) : u \in Thread}
<1>1. \A u \in Thread : IsFiniteSet(Wanted(f, p, u))
  <2> SUFFICES ASSUME NEW u \in Thread PROVE IsFiniteSet(Wanted(f, p, u))
    OBVIOUS
  <2>1. CASE f[u] \in DOMAIN prog[u]
    <3> DEFINE cs == prog[u][f[u]].claims
    <3>1. prog[u][f[u]] \in Traversal
      BY <2>1 DEF Typing
    <3>2. cs \in Seq([pool : Pool, kind : {"lock", "share"}])
      BY <3>1 DEF Traversal
    <3>3. Len(cs) \in Nat /\ DOMAIN cs = 1 .. Len(cs)
      BY <3>2
    <3>4. IsFiniteSet(1 .. Len(cs))
      <4>1. 1 \in Int /\ Len(cs) \in Int
        BY <3>3
      <4>2. QED
        BY <4>1, FS_Interval
    <3>5. Wanted(f, p, u) \in SUBSET (1 .. Len(cs))
      BY <2>1, <3>3 DEF Wanted
    <3>6. QED
      BY <3>4, <3>5, FS_Subset
  <2>2. CASE f[u] \notin DOMAIN prog[u]
    BY <2>2, FS_EmptySet DEF Wanted
  <2>3. QED
    BY <2>1, <2>2
<1>2. \A u \in Thread : IsFiniteSet(Of(u))
  BY <1>1, FS_Singleton, FS_Product
<1>3. g \in Surjection(Thread, All)
  BY DEF Surjection
<1>4. IsFiniteSet(All)
  BY <1>3, ThreadAssumption, FS_Surjection
<1>5. IsFiniteSet(UNION All)
  BY <1>2, <1>4, FS_UNION
<1>6. QED
  BY <1>5 DEF Together

\* In a feasible fork a thread that claims from a pool finds an instance that
\* nobody holds: the others' claims of that pool, and its own so far, are
\* fewer than the instances.
LEMMA SomeFree ==
  ASSUME IInv, Feasible, NEW t \in Thread, ~Done(t), phase[t] = "claim",
         NEW n \in DOMAIN Trav(t).claims, n = k[t],
         NEW p \in Pool, p = Trav(t).claims[n].pool
  PROVE  \E m \in Ids(p) : CanLock(<<p, m>>)
<1> USE DEF IInv
<1> DEFINE f == [u \in Thread |-> IF Done(u) THEN 1 ELSE at[u]]
           W == Together(f, p)
           V == W \ {<<t, n>>}
<1>1. f \in Places
  <2>1. \A u \in Thread : ~Done(u) => at[u] \in DOMAIN prog[u]
    BY DEF Done, Typing
  <2>2. QED
    BY <2>1 DEF Places
<1>2. IsFiniteSet(W) /\ Cardinality(W) <= Cap[p]
  BY <1>1, TogetherFinite DEF Feasible
<1>3. \A u \in Thread : \A m : ~Done(u) /\ m \in DOMAIN Trav(u).claims /\ Trav(u).claims[m].pool = p
                             => <<u, m>> \in W
  <2>1. \A u \in Thread : ~Done(u) => at[u] \in DOMAIN prog[u] /\ f[u] = at[u]
    BY DEF Done, Typing
  <2>2. \A u \in Thread : \A m : ~Done(u) /\ m \in DOMAIN Trav(u).claims /\ Trav(u).claims[m].pool = p
                               => m \in Wanted(f, p, u)
    BY <2>1 DEF Wanted, Trav
  <2>3. QED
    BY <2>2 DEF Together
<1>4. Cap[p] \in Nat \ {0} /\ Cardinality(W) \in Nat
  BY <1>2, CapAssumption, FS_CardinalityType
<1>5. IsFiniteSet(V) /\ Cardinality(V) < Cap[p]
  <2>1. <<t, n>> \in W
    BY <1>3
  <2>2. IsFiniteSet(V) /\ Cardinality(V) = Cardinality(W) - 1
    <3> HIDE DEF W
    <3>1. QED
      BY <1>2, <2>1, FS_RemoveElement
  <2>3. QED
    BY <1>2, <1>4, <2>2
<1> SUFFICES ASSUME \A m \in Ids(p) : ~CanLock(<<p, m>>) PROVE FALSE
  OBVIOUS
<1>6. ASSUME NEW m \in Ids(p)
      PROVE  \E s \in V : cid[s[1]][s[2]] = m
  <2> DEFINE i == <<p, m>>
  <2>1. i \in Instance
    BY DEF Instance
  <2>2. PICK kd \in {"lock", "share"} : Holding(i, kd) # {}
    BY <2>1, FS_EmptySet DEF CanLock, CountsExact
  <2>3. PICK u \in Thread : \E c : Owns(u, c, i, kd)
    BY <2>2, HoldingIs
  <2>4. PICK c : phase[u] # "next" /\ c \in DOMAIN cid[u] /\ Res(u, c) = i
    BY <2>3 DEF Owns, Holds
  <2>5. Inside(u)
    BY <2>4 DEF Position
  <2>6. ~Done(u) /\ c \in DOMAIN Trav(u).claims
    BY <2>4, <2>5 DEF Inside
  <2>7. Trav(u).claims[c].pool = p /\ cid[u][c] = m
    BY <2>4 DEF Res
  <2>8. <<u, c>> # <<t, n>>
    <3>1. Inside(t)
      BY DEF Position
    <3>2. n = Len(cid[t]) + 1 /\ Len(cid[t]) \in Nat /\ DOMAIN cid[t] = 1 .. Len(cid[t])
      BY <3>1 DEF Inside, Typing
    <3>3. QED
      BY <2>4, <3>2
  <2>9. <<u, c>> \in V
    BY <1>3, <2>6, <2>7, <2>8
  <2>10. QED
    BY <2>7, <2>9
<1> DEFINE T == {s \in V : cid[s[1]][s[2]] \in Ids(p)}
           h == [s \in T |-> cid[s[1]][s[2]]]
<1>7. h \in Surjection(T, Ids(p))
  <2> HIDE DEF V
  <2>1. h \in [T -> Ids(p)]
    OBVIOUS
  <2>2. \A m \in Ids(p) : \E s \in T : h[s] = m
    BY <1>6
  <2>3. QED
    BY <2>1, <2>2 DEF Surjection
<1>8. IsFiniteSet(T) /\ Cardinality(T) <= Cardinality(V)
  <2> HIDE DEF V
  <2>1. T \in SUBSET V
    OBVIOUS
  <2>2. QED
    BY <1>5, <2>1, FS_Subset
<1>9. IsFiniteSet(Ids(p)) /\ Cardinality(Ids(p)) = Cap[p]
  <2>1. 0 \in Int /\ Cap[p] - 1 \in Int
    BY <1>4
  <2>2. /\ IsFiniteSet(0 .. Cap[p] - 1)
        /\ Cardinality(0 .. Cap[p] - 1) = IF 0 > Cap[p] - 1 THEN 0 ELSE Cap[p] - 1 - 0 + 1
    BY <2>1, FS_Interval
  <2>3. QED
    BY <1>4, <2>2 DEF Ids
<1>10. Cardinality(Ids(p)) <= Cardinality(T)
  <2> HIDE DEF T, h
  <2>1. QED
    BY <1>7, <1>8, FS_Surjection
<1>11. Cardinality(T) \in Nat /\ Cardinality(V) \in Nat
  <2> HIDE DEF T, V
  <2>1. QED
    BY <1>5, <1>8, FS_CardinalityType
<1> HIDE DEF T, V
<1>12. QED
  BY <1>4, <1>5, <1>8, <1>9, <1>10, <1>11

\* So no claim of a feasible fork is refused, and no release ends the
\* simulation.
LEMMA FeasibleStep == IInv /\ FeasibleGranted /\ [Next]_vars => FeasibleGranted'
<1> SUFFICES ASSUME IInv, FeasibleGranted, [Next]_vars, Feasible'
             PROVE  (/\ ~aborted
                     /\ \A t \in Thread : \A n \in DOMAIN cid[t] : cid[t][n] # -1)'
  BY DEF FeasibleGranted
<1> USE DEF IInv
<1>1. prog' = prog
  BY DEF Next, vars, threadVars, Run, Enter, Claim, Get, Body, Put, Release, NoClaim, NoGet, NoPut,
         Skip, Leave
<1>2. Feasible
  BY <1>1 DEF Feasible, Places, Together, Wanted
<1>3. ~aborted /\ \A t \in Thread : \A n \in DOMAIN cid[t] : cid[t][n] # -1
  BY <1>2 DEF FeasibleGranted
<1>4. ASSUME NEW t \in Thread, Claim(t)
      PROVE  ~aborted' /\ \A u \in Thread : \A n \in DOMAIN cid'[u] : cid'[u][n] # -1
  <2> DEFINE c == Trav(t).claims[k[t]]
             m == IF c.kind = "lock" THEN ClaimId(c.pool) ELSE ClaimSharedId(c.pool)
  <2>1. /\ ~Done(t) /\ phase[t] = "claim" /\ Trav(t).claims # <<>>
        /\ cid' = [cid EXCEPT ![t] = Append(@, m)] /\ aborted' = aborted
    BY <1>4 DEF Claim, At
  <2>2. k[t] \in DOMAIN Trav(t).claims /\ c.pool \in Pool
    BY <2>1, AtTraversal DEF Position, Inside, Index
  <2>3. PICK j \in Ids(c.pool) : CanLock(<<c.pool, j>>)
    BY <1>2, <2>1, <2>2, SomeFree
  <2>4. m # -1
    <3> DEFINE p == c.pool
               L == {i \in Ids(p) : CanLock(<<p, i>>)}
               H == {i \in Ids(p) : CanShare(<<p, i>>)}
    <3>1. Ids(p) \subseteq Nat
      BY <2>2, CapAssumption DEF Ids
    <3>2. j \in L /\ j \in H
      BY <2>3 DEF CanLock, CanShare
    <3>3. FirstId(L) \in L /\ FirstId(H) \in H
      BY <3>1, <3>2, FirstIdIn
    <3>4. ClaimId(p) \in Nat /\ ClaimSharedId(p) \in Nat
      BY <3>1, <3>3 DEF ClaimId, ClaimSharedId
    <3>5. QED
      BY <3>4
  <2> HIDE DEF m
  <2>5. cid[t] \in Seq(Nat \cup {-1})
    BY DEF Typing
  <2>6. \A n \in DOMAIN Append(cid[t], m) : Append(cid[t], m)[n] # -1
    BY <1>3, <2>4, <2>5
  <2>7. \A u \in Thread : cid'[u] = IF u = t THEN Append(cid[t], m) ELSE cid[u]
    BY <2>1 DEF Typing
  <2>8. QED
    BY <1>3, <2>1, <2>6, <2>7
<1>5. ASSUME NEW t \in Thread, Release(t)
      PROVE  ~aborted' /\ \A u \in Thread : \A n \in DOMAIN cid'[u] : cid'[u][n] # -1
  <2>1. /\ ~Done(t) /\ phase[t] = "release" /\ Trav(t).claims # <<>> /\ cid' = cid
        /\ aborted' = (cid[t][k[t]] = -1 /\ Trav(t).claims[k[t]].kind = "lock")
    BY <1>5 DEF Release, At
  <2>2. k[t] \in DOMAIN cid[t]
    <3>1. k[t] \in DOMAIN Trav(t).claims /\ Len(cid[t]) = Len(Trav(t).claims)
      BY <2>1 DEF Position, Inside, Index
    <3>2. Trav(t).claims \in Seq([pool : Pool, kind : {"lock", "share"}])
      BY <2>1, AtTraversal
    <3>3. cid[t] \in Seq(Nat \cup {-1})
      BY DEF Typing
    <3>4. QED
      BY <3>1, <3>2, <3>3
  <2>3. QED
    BY <1>3, <2>1, <2>2
<1>6. ASSUME NEW t \in Thread, Enter(t)
      PROVE  ~aborted' /\ \A u \in Thread : \A n \in DOMAIN cid'[u] : cid'[u][n] # -1
  <2>1. cid' = [cid EXCEPT ![t] = <<>>] /\ aborted' = aborted
    BY <1>6 DEF Enter
  <2>2. \A u \in Thread : cid'[u] = IF u = t THEN <<>> ELSE cid[u]
    BY <2>1 DEF Typing
  <2>3. DOMAIN <<>> = {}
    OBVIOUS
  <2>4. QED
    BY <1>3, <2>1, <2>2, <2>3
<1>7. ASSUME UNCHANGED <<cid, aborted>>
      PROVE  ~aborted' /\ \A u \in Thread : \A n \in DOMAIN cid'[u] : cid'[u][n] # -1
  BY <1>3, <1>7
<1>8. QED
  BY <1>4, <1>5, <1>6, <1>7 DEF Next, vars, threadVars, Run, Get, Body, Put, NoClaim, NoGet, NoPut,
                                Skip, Leave

-----------------------------------------------------------------------------
\* The pool's counters never go negative and a stream channel never holds more
\* than the one item it has room for.
THEOREM TypeCorrect == Spec => []TypeOK
<1>1. IInv => TypeOK
  BY DEF IInv, Typing, TypeOK
<1>2. QED
  BY <1>1, Invariance, PTL

\* The pool's flag and counter are exactly the claims that are out, in every
\* interleaving: refused claims and their releases leave no trace.
THEOREM PoolIsExact == Spec => []CountsExact
<1>1. IInv => CountsExact
  BY DEF IInv
<1>2. QED
  BY <1>1, Invariance, PTL

\* Two claims of one instance are held at once only if both are for sharing,
\* whichever threads and fields they belong to.
ClaimsRespected ==
    \A t, u \in Thread : \A n \in Holds(t), m \in Holds(u) :
        <<t, n>> # <<u, m>> /\ Res(t, n) = Res(u, m)
            => Kind(t, n) = "share" /\ Kind(u, m) = "share"

\* Two claims of one instance are out at once only if both are for sharing.
THEOREM ClaimsAreRespected == Spec => []ClaimsRespected
<1>1. IInv => ClaimsRespected
  <2> SUFFICES ASSUME IInv, NEW t \in Thread, NEW u \in Thread, NEW n \in Holds(t), NEW m \in Holds(u),
                      <<t, n>> # <<u, m>>, Res(t, n) = Res(u, m)
               PROVE  Kind(t, n) = "share" /\ Kind(u, m) = "share"
    BY DEF ClaimsRespected
  <2> USE DEF IInv
  <2> DEFINE i == Res(t, n)
  <2>1. /\ Kind(t, n) \in {"lock", "share"} /\ Kind(u, m) \in {"lock", "share"}
        /\ i \in Instance
    <3>1. /\ phase[t] # "next" /\ n \in DOMAIN cid[t] /\ cid[t][n] # -1
          /\ phase[u] # "next" /\ m \in DOMAIN cid[u]
      BY DEF Holds
    <3>2. Inside(t) /\ Inside(u)
      BY <3>1 DEF Position
    <3>3. n \in DOMAIN Trav(t).claims /\ m \in DOMAIN Trav(u).claims /\ i \in Instance
      BY <3>1, <3>2 DEF Inside
    <3>4. QED
      BY <3>2, <3>3, AtTraversal DEF Kind, Inside
  <2>2. <<t, n>> \in Holding(i, Kind(t, n)) /\ <<u, m>> \in Holding(i, Kind(u, m))
    BY HoldingIs DEF Owns
  <2>3. \A kd : Holding(i, kd) # {} /\ kd = "share" => shareCount[i] # 0
    <3>1. /\ IsFiniteSet(Holding(i, "share"))
          /\ shareCount[i] = Cardinality(Holding(i, "share"))
      BY <2>1 DEF OneOwner, CountsExact
    <3>2. QED
      BY <3>1, FS_EmptySet
  <2>4. \A kd : Holding(i, kd) # {} /\ kd = "lock" => lockHeld[i]
    BY <2>1 DEF CountsExact
  <2>5. QED
    BY <2>1, <2>2, <2>3, <2>4 DEF OneOwner
<1>2. QED
  BY <1>1, Invariance, PTL

\* In a fork whose threads together never claim more than the pools have,
\* every claim is granted, in every interleaving: sharers that are spread over
\* several instances starve no later lock.
THEOREM FeasibleForksAreGranted == Spec => []FeasibleGranted
<1>1. Init => FeasibleGranted
  BY DEF Init, FeasibleGranted
<1>2. QED
  BY <1>1, FeasibleStep, Invariance, PTL DEF Spec

-----------------------------------------------------------------------------
(* The pools implement the allocator *)

\* The grant of claim n of thread t.
GrantOf(t, n, i, kd) == [by |-> <<t, at[t], n>>, of |-> i, kind |-> kd]

LEMMA GrantsAre ==
  /\ \A g : g \in Grants <=> \E t \in Thread : \E n, i, kd : Owns(t, n, i, kd) /\ g = GrantOf(t, n, i, kd)
  /\ \A g : g \in Grants' <=> \E t \in Thread : \E n, i, kd : Owns(t, n, i, kd)' /\ g = GrantOf(t, n, i, kd)'
<1> DEFINE G(s) == [by |-> <<s[1], at[s[1]], s[2]>>, of |-> Res(s[1], s[2]), kind |-> Kind(s[1], s[2])]
<1>1. /\ \A s : s \in Out <=> \E t \in Thread : \E n \in Holds(t) : s = <<t, n>>
      /\ \A s : s \in Out' <=> \E t \in Thread : \E n \in Holds(t)' : s = <<t, n>>
  BY DEF Out
<1>2. ASSUME NEW g
      PROVE  g \in Grants <=> \E t \in Thread : \E n \in Holds(t) : g = GrantOf(t, n, Res(t, n), Kind(t, n))
  <2>1. g \in Grants <=> \E s \in Out : g = G(s)
    BY DEF Grants
  <2>2. \A t, n : G(<<t, n>>) = GrantOf(t, n, Res(t, n), Kind(t, n))
    BY DEF GrantOf
  <2> HIDE DEF G
  <2>3. ASSUME g \in Grants PROVE \E t \in Thread : \E n \in Holds(t) : g = GrantOf(t, n, Res(t, n), Kind(t, n))
    <3>1. PICK s \in Out : g = G(s)
      BY <2>1, <2>3
    <3>2. PICK t, n : t \in Thread /\ n \in Holds(t) /\ s = <<t, n>>
      BY <1>1
    <3>3. g = GrantOf(t, n, Res(t, n), Kind(t, n))
      BY <2>2, <3>1, <3>2
    <3>4. QED
      BY <3>2, <3>3
  <2>4. ASSUME NEW t \in Thread, NEW n \in Holds(t), g = GrantOf(t, n, Res(t, n), Kind(t, n)) PROVE g \in Grants
    <3>1. <<t, n>> \in Out
      BY <1>1
    <3>2. QED
      BY <2>1, <2>2, <2>4, <3>1
  <2>5. QED
    BY <2>3, <2>4
<1>3. ASSUME NEW g
      PROVE  g \in Grants' <=> \E t \in Thread : \E n \in Holds(t)' : g = GrantOf(t, n, Res(t, n), Kind(t, n))'
  <2>1. g \in Grants' <=> \E s \in Out' : g = G(s)'
    BY DEF Grants
  <2>2. \A t, n : G(<<t, n>>)' = GrantOf(t, n, Res(t, n), Kind(t, n))'
    BY DEF GrantOf
  <2> HIDE DEF G
  <2>3. ASSUME g \in Grants' PROVE \E t \in Thread : \E n \in Holds(t)' : g = GrantOf(t, n, Res(t, n), Kind(t, n))'
    <3>1. PICK s \in Out' : g = G(s)'
      BY <2>1, <2>3
    <3>2. PICK t, n : t \in Thread /\ n \in Holds(t)' /\ s = <<t, n>>
      BY <1>1
    <3>3. g = GrantOf(t, n, Res(t, n), Kind(t, n))'
      BY <2>2, <3>1, <3>2
    <3>4. QED
      BY <3>2, <3>3
  <2>4. ASSUME NEW t \in Thread, NEW n \in Holds(t)', g = GrantOf(t, n, Res(t, n), Kind(t, n))' PROVE g \in Grants'
    <3>1. <<t, n>> \in Out'
      BY <1>1
    <3>2. QED
      BY <2>1, <2>2, <2>4, <3>1
  <2>5. QED
    BY <2>3, <2>4
<1>4. QED
  BY <1>2, <1>3 DEF Owns

\* What is out is a lock or a share of an instance of the pools.
LEMMA OwnsType ==
  ASSUME IInv, NEW t \in Thread, NEW n, NEW i, NEW kd, Owns(t, n, i, kd)
  PROVE  i \in Instance /\ kd \in {"lock", "share"}
<1>1. phase[t] # "next" /\ n \in DOMAIN cid[t] /\ cid[t][n] # -1 /\ Res(t, n) = i /\ Kind(t, n) = kd
  BY DEF Owns, Holds
<1>2. Inside(t)
  BY <1>1 DEF IInv, Position
<1>3. n \in DOMAIN Trav(t).claims /\ i \in Instance
  BY <1>1, <1>2 DEF Inside
<1>4. QED
  BY <1>1, <1>2, <1>3, AtTraversal DEF Kind, Inside, IInv

\* A step that gains a claim is a grant of the abstract allocator.
LEMMA GainsGrants ==
  ASSUME IInv, prog' = prog, NEW t \in Thread, Books(t), Gains(t)
  PROVE  Pools!Next
<1>1. PICK m : \E i \in Instance : \E kd \in {"lock", "share"} :
               /\ kd = "lock" => CanLock(i)
               /\ kd = "share" => CanShare(i)
               /\ \A j, q : ~Owns(t, m, j, q)
               /\ \A n, j, q : Owns(t, n, j, q)' <=> Owns(t, n, j, q) \/ (n = m /\ j = i /\ q = kd)
  BY DEF Gains
<1>2. PICK i \in Instance, kd \in {"lock", "share"} :
               /\ kd = "lock" => CanLock(i)
               /\ kd = "share" => CanShare(i)
               /\ \A j, q : ~Owns(t, m, j, q)
               /\ \A n, j, q : Owns(t, n, j, q)' <=> Owns(t, n, j, q) \/ (n = m /\ j = i /\ q = kd)
  BY <1>1
<1>3. PICK g : g = GrantOf(t, m, i, kd)
  OBVIOUS
<1>4. Owns(t, m, i, kd)'
  BY <1>2
<1>5. at'[t] = at[t]
  BY <1>4 DEF Books
<1>6. \A u \in Thread : at'[u] = at[u]
  BY <1>5 DEF Books, Same
<1>7. \A u \in Thread \ {t} : \A n, j, q : Owns(u, n, j, q)' <=> Owns(u, n, j, q)
  BY Frame DEF Books
<1>8. \A u \in Thread : \A n, j, q : GrantOf(u, n, j, q)' = GrantOf(u, n, j, q)
  BY <1>6 DEF GrantOf
<1>9. Grants' = Grants \cup {g}
  <2>1. ASSUME NEW h PROVE h \in Grants' <=> h \in Grants \/ h = g
    <3>1. h \in Grants' <=> \E u \in Thread : \E n, j, q : Owns(u, n, j, q)' /\ h = GrantOf(u, n, j, q)
      BY <1>8, GrantsAre
    <3>2. QED
      BY <1>2, <1>3, <1>7, <3>1, GrantsAre
  <2>2. QED
    BY <2>1
<1>10. ASSUME NEW h \in Grants
       PROVE  h.by # g.by /\ (h.of = g.of => h.kind = "share" /\ g.kind = "share")
  <2>1. PICK u \in Thread : \E n, j, q : Owns(u, n, j, q) /\ h = GrantOf(u, n, j, q)
    BY GrantsAre
  <2>2. PICK n, j, q : Owns(u, n, j, q) /\ h = GrantOf(u, n, j, q)
    BY <2>1
  <2>3. /\ h.by = <<u, at[u], n>> /\ h.of = j /\ h.kind = q
        /\ g.by = <<t, at[t], m>> /\ g.of = i /\ g.kind = kd
    BY <1>3, <2>2 DEF GrantOf
  <2>4. h.by # g.by
    BY <1>2, <2>2, <2>3
  <2>5. q \in {"lock", "share"} /\ Holding(j, q) # {}
    BY <2>2, HoldingIs, OwnsType
  <2>6. j = i => q = "share" /\ kd = "share"
    <3> SUFFICES ASSUME j = i PROVE q = "share" /\ kd = "share"
      OBVIOUS
    <3>1. /\ IsFiniteSet(Holding(i, "share"))
          /\ shareCount[i] = Cardinality(Holding(i, "share"))
          /\ lockHeld[i] <=> Holding(i, "lock") # {}
      BY DEF IInv, OneOwner, CountsExact
    <3>2. shareCount[i] = 0 => Holding(i, "share") = {}
      BY <3>1, FS_EmptySet
    <3>3. ~lockHeld[i]
      BY <1>2 DEF CanLock, CanShare
    <3>4. q = "share"
      BY <2>5, <3>1, <3>3
    <3>5. kd # "lock"
      BY <1>2, <2>5, <3>2, <3>4 DEF CanLock
    <3>6. QED
      BY <3>4, <3>5
  <2>7. QED
    BY <2>3, <2>4, <2>6
<1>11. Pools!Grant(g) /\ g \in Grants'
  BY <1>9, <1>10 DEF Pools!Grant
<1>12. QED
  BY <1>11 DEF Pools!Next

\* A step that loses one is a return.
LEMMA LosesReturns ==
  ASSUME IInv, prog' = prog, NEW t \in Thread, Books(t), Loses(t)
  PROVE  Pools!Next
<1>1. PICK m, i, kd : /\ Owns(t, m, i, kd)
                      /\ \A n, j, q : Owns(t, n, j, q)' <=> Owns(t, n, j, q) /\ n # m
  BY DEF Loses
<1>2. PICK g : g = GrantOf(t, m, i, kd)
  OBVIOUS
<1>3. \A u \in Thread \ {t} : at'[u] = at[u] /\ \A n, j, q : Owns(u, n, j, q)' <=> Owns(u, n, j, q)
  BY Frame DEF Books, Same
<1>4. \A u \in Thread : \A n, j, q : Owns(u, n, j, q)' => GrantOf(u, n, j, q)' = GrantOf(u, n, j, q)
  BY <1>3 DEF GrantOf, Books
<1>5. \A u \in Thread : \A n, j, q : Owns(u, n, j, q)' <=> Owns(u, n, j, q) /\ (u # t \/ n # m)
  BY <1>1, <1>3
<1>6. \A u \in Thread : \A n, j, q : Owns(u, n, j, q) => (GrantOf(u, n, j, q) = g <=> u = t /\ n = m)
  <2> SUFFICES ASSUME NEW u \in Thread, NEW n, NEW j, NEW q, Owns(u, n, j, q)
               PROVE  GrantOf(u, n, j, q) = g <=> u = t /\ n = m
    OBVIOUS
  <2>1. GrantOf(u, n, j, q) = g => u = t /\ n = m
    <3>1. GrantOf(u, n, j, q).by = <<u, at[u], n>> /\ g.by = <<t, at[t], m>>
      BY <1>2 DEF GrantOf
    <3>2. QED
      BY <3>1
  <2>2. u = t /\ n = m => j = i /\ q = kd
    BY <1>1 DEF Owns
  <2>3. QED
    BY <1>2, <2>1, <2>2
<1>7. Grants' = Grants \ {g}
  <2>1. ASSUME NEW h PROVE h \in Grants' <=> h \in Grants /\ h # g
    <3>1. h \in Grants' <=> \E u \in Thread : \E n, j, q : Owns(u, n, j, q)' /\ h = GrantOf(u, n, j, q)
      BY <1>4, GrantsAre
    <3>2. h \in Grants' <=> \E u \in Thread : \E n, j, q : Owns(u, n, j, q) /\ (u # t \/ n # m) /\ h = GrantOf(u, n, j, q)
      BY <1>5, <3>1
    <3>3. QED
      BY <1>6, <3>2, GrantsAre
  <2>2. QED
    BY <2>1
<1>8. g \in Grants
  BY <1>1, <1>2, GrantsAre
<1>9. Pools!Return(g)
  BY <1>7, <1>8 DEF Pools!Return
<1>10. QED
  BY <1>8, <1>9 DEF Pools!Next

\* Every other step is a stutter.
LEMMA KeepsStutters ==
  ASSUME IInv, prog' = prog, NEW t \in Thread, Books(t), Keeps(t)
  PROVE  Grants' = Grants
<1>1. \A u \in Thread \ {t} : at'[u] = at[u] /\ \A n, j, q : Owns(u, n, j, q)' <=> Owns(u, n, j, q)
  BY Frame DEF Books, Same
<1>2. \A u \in Thread : \A n, j, q : Owns(u, n, j, q)' <=> Owns(u, n, j, q)
  BY <1>1 DEF Keeps
<1>3. \A u \in Thread : \A n, j, q : Owns(u, n, j, q)' => GrantOf(u, n, j, q)' = GrantOf(u, n, j, q)
  BY <1>1 DEF GrantOf, Books
<1>4. ASSUME NEW h PROVE h \in Grants' <=> h \in Grants
  <2>1. h \in Grants' <=> \E u \in Thread : \E n, j, q : Owns(u, n, j, q)' /\ h = GrantOf(u, n, j, q)
    BY <1>3, GrantsAre
  <2>2. QED
    BY <1>2, <2>1, GrantsAre
<1>5. QED
  BY <1>4

\* A sv-pure fork implements the allocator, for every set of forks, threads,
\* pools and capacities: each step grants one claim an instance nobody else
\* has unless both share it, returns one grant, or does neither.
THEOREM PoolsRefinement == Spec => ImplementsAllocator
<1>1. Init => Pools!Init
  <2> SUFFICES ASSUME Init PROVE Grants = {}
    BY DEF Pools!Init
  <2>1. \A t \in Thread : Holds(t) = {}
    BY DEF Init, Holds
  <2>2. QED
    BY <2>1 DEF Grants, Out
<1>2. IInv /\ [Next]_vars => [Pools!Next]_Grants
  <2> SUFFICES ASSUME IInv, [Next]_vars PROVE Pools!Next \/ Grants' = Grants
    OBVIOUS
  <2>1. prog' = prog
    BY DEF Next, vars, threadVars, Run, Enter, Claim, Get, Body, Put, Release, NoClaim, NoGet, NoPut,
           Skip, Leave
  <2>2. ASSUME NEW t \in Thread, Run(t) PROVE Pools!Next \/ Grants' = Grants
    <3>1. Books(t)
      BY <2>2, EnterPreserves, ClaimPreserves, WorkPreserves, ReleasePreserves, LeavePreserves DEF Run
    <3>2. Keeps(t) \/ Gains(t) \/ Loses(t)
      BY <3>1 DEF Books
    <3>3. QED
      BY <2>1, <3>1, <3>2, KeepsStutters, GainsGrants, LosesReturns
  <2>3. CASE UNCHANGED vars
    BY <2>3 DEF vars, threadVars, Grants, Out, Holds, Res, Kind, Trav
  <2>4. QED
    BY <2>2, <2>3 DEF Next
<1>3. QED
  BY <1>1, <1>2, Invariance, PTL DEF Spec, ImplementsAllocator, Pools!Spec

-----------------------------------------------------------------------------
(* Streams *)

\* Thread t is past statement m of the sends (d = "put") or receives (d = "get")
\* of its traversal n.
Beyond(d) == IF d = "get" THEN {"body", "put", "release"} ELSE {"release"}
Past(t, n, m, d) == \/ n < at[t]
                    \/ n = at[t] /\ (phase[t] \in Beyond(d) \/ (phase[t] = d /\ m < k[t]))
Passed(d, c) == {e \in Ends(d, c) : Past(e[1][1], e[1][2], e[2], d)}

\* A mailbox holds what was sent and not yet received.
Account == \A c \in Chan : box[c] + Cardinality(Passed("get", c)) = Cardinality(Passed("put", c))

\* The elements of Ends.
LEMMA EndsIs ==
  ASSUME NEW d, NEW c
  PROVE  /\ \A t, n, m : <<<<t, n>>, m>> \in Ends(d, c) <=>
                /\ t \in Thread /\ n \in DOMAIN prog[t]
                /\ m \in DOMAIN Streams(<<t, n>>, d) /\ Streams(<<t, n>>, d)[m] = c
         /\ \A e \in Ends(d, c) :
                /\ e = <<<<e[1][1], e[1][2]>>, e[2]>>
                /\ e[1][1] \in Thread /\ e[1][2] \in DOMAIN prog[e[1][1]]
                /\ e[2] \in DOMAIN Streams(<<e[1][1], e[1][2]>>, d)
<1>1. \A t, n : <<t, n>> \in Traversals <=> t \in Thread /\ n \in DOMAIN prog[t]
  BY DEF Traversals
<1>2. \A s \in Traversals : s = <<s[1], s[2]>>
  BY DEF Traversals
<1>3. \A s, m : <<s, m>> \in Ends(d, c) <=> s \in Traversals /\ m \in DOMAIN Streams(s, d) /\ Streams(s, d)[m] = c
  BY DEF Ends
<1>4. \A e \in Ends(d, c) : e = <<e[1], e[2]>>
  BY DEF Ends
<1>5. \A t, n, m : <<<<t, n>>, m>> \in Ends(d, c) <=>
                /\ t \in Thread /\ n \in DOMAIN prog[t]
                /\ m \in DOMAIN Streams(<<t, n>>, d) /\ Streams(<<t, n>>, d)[m] = c
  BY <1>1, <1>3
<1>6. ASSUME NEW e \in Ends(d, c)
      PROVE  /\ e = <<<<e[1][1], e[1][2]>>, e[2]>>
             /\ e[1][1] \in Thread /\ e[1][2] \in DOMAIN prog[e[1][1]]
             /\ e[2] \in DOMAIN Streams(<<e[1][1], e[1][2]>>, d)
  <2>1. PICK s, m : e = <<s, m>> /\ e[1] = s /\ e[2] = m
    BY <1>4
  <2>2. s \in Traversals /\ m \in DOMAIN Streams(s, d)
    BY <1>3, <2>1
  <2>3. s = <<s[1], s[2]>>
    BY <1>2, <2>2
  <2>4. s[1] \in Thread /\ s[2] \in DOMAIN prog[s[1]]
    BY <1>1, <2>2, <2>3
  <2>5. QED
    BY <2>1, <2>2, <2>3, <2>4
<1>7. QED
  BY <1>5, <1>6

\* The sends and receives of a traversal are sequences of channels.
LEMMA StreamsType ==
  ASSUME Typing, NEW d \in {"get", "put"}, NEW t \in Thread, NEW n \in DOMAIN prog[t]
  PROVE  Streams(<<t, n>>, d) \in Seq(Chan)
<1>1. prog[t][n] \in Traversal
  BY DEF Typing
<1>2. QED
  BY <1>1 DEF Streams, Traversal

\* They are finitely many.
LEMMA EndsFinite ==
  ASSUME Typing, NEW d \in {"get", "put"}, NEW c
  PROVE  IsFiniteSet(Ends(d, c))
<1>1. IsFiniteSet(Traversals)
  <2> DEFINE Of(t) == {t} \X DOMAIN prog[t]
             g == [t \in Thread |-> Of(t)]
             All == {Of(t) : t \in Thread}
  <2>1. \A t \in Thread : IsFiniteSet(Of(t))
    <3> SUFFICES ASSUME NEW t \in Thread PROVE IsFiniteSet(Of(t))
      OBVIOUS
    <3>1. DOMAIN prog[t] = 1 .. Len(prog[t]) /\ 1 \in Int /\ Len(prog[t]) \in Int
      BY DEF Typing
    <3>2. IsFiniteSet(DOMAIN prog[t])
      BY <3>1, FS_Interval
    <3>3. QED
      BY <3>2, FS_Singleton, FS_Product
  <2>2. g \in Surjection(Thread, All)
    BY DEF Surjection
  <2>3. IsFiniteSet(All)
    BY <2>2, ThreadAssumption, FS_Surjection
  <2>4. IsFiniteSet(UNION All)
    BY <2>1, <2>3, FS_UNION
  <2>5. QED
    BY <2>4 DEF Traversals
<1> DEFINE In(s) == {s} \X {m \in DOMAIN Streams(s, d) : Streams(s, d)[m] = c}
           h == [s \in Traversals |-> In(s)]
           Each == {In(s) : s \in Traversals}
<1>2. \A s \in Traversals : IsFiniteSet(In(s))
  <2> SUFFICES ASSUME NEW s \in Traversals PROVE IsFiniteSet(In(s))
    OBVIOUS
  <2>1. PICK t \in Thread : \E n \in DOMAIN prog[t] : s = <<t, n>>
    BY DEF Traversals
  <2>2. Streams(s, d) \in Seq(Chan)
    <3>1. PICK n \in DOMAIN prog[t] : s = <<t, n>>
      BY <2>1
    <3>2. QED
      BY <3>1, StreamsType
  <2>3. DOMAIN Streams(s, d) = 1 .. Len(Streams(s, d)) /\ 1 \in Int /\ Len(Streams(s, d)) \in Int
    BY <2>2
  <2>4. IsFiniteSet(DOMAIN Streams(s, d))
    BY <2>3, FS_Interval
  <2>5. IsFiniteSet({m \in DOMAIN Streams(s, d) : Streams(s, d)[m] = c})
    BY <2>4, FS_Subset
  <2>6. QED
    BY <2>5, FS_Singleton, FS_Product
<1>3. h \in Surjection(Traversals, Each)
  BY DEF Surjection
<1>4. IsFiniteSet(Each)
  BY <1>1, <1>3, FS_Surjection
<1>5. IsFiniteSet(UNION Each)
  BY <1>2, <1>4, FS_UNION
<1>6. QED
  BY <1>5 DEF Ends

\* A step of t in which it passes none of them.
LEMMA NonePasses ==
  ASSUME prog' = prog, NEW t \in Thread, \A u \in Thread \ {t} : Same(u),
         NEW d, NEW c,
         \A n \in DOMAIN prog[t] : \A m \in DOMAIN Streams(<<t, n>>, d) :
             Past(t, n, m, d)' <=> Past(t, n, m, d)
  PROVE  Passed(d, c)' = Passed(d, c)
<1>1. Ends(d, c)' = Ends(d, c)
  BY DEF Ends, Streams, Traversals
<1>2. \A u \in Thread : \A n \in DOMAIN prog[u] : \A m \in DOMAIN Streams(<<u, n>>, d) :
          Past(u, n, m, d)' <=> Past(u, n, m, d)
  BY DEF Past, Same
<1>3. \A e \in Ends(d, c) : Past(e[1][1], e[1][2], e[2], d)' <=> Past(e[1][1], e[1][2], e[2], d)
  BY <1>2, EndsIs
<1>4. QED
  BY <1>1, <1>3 DEF Passed

\* A step of t in which it passes the one it is at.
LEMMA OnePasses ==
  ASSUME Typing, prog' = prog, NEW t \in Thread, \A u \in Thread \ {t} : Same(u),
         NEW d \in {"get", "put"}, NEW c,
         at[t] \in DOMAIN prog[t], NEW s, s = Streams(<<t, at[t]>>, d),
         k[t] \in DOMAIN s, phase[t] = d,
         \A n \in DOMAIN prog[t] : \A m \in DOMAIN Streams(<<t, n>>, d) :
             Past(t, n, m, d)' <=> Past(t, n, m, d) \/ (n = at[t] /\ m = k[t])
  PROVE  IF s[k[t]] = c THEN Cardinality(Passed(d, c))' = Cardinality(Passed(d, c)) + 1
                        ELSE Passed(d, c)' = Passed(d, c)
<1> DEFINE x == <<<<t, at[t]>>, k[t]>>
<1>1. Ends(d, c)' = Ends(d, c)
  BY DEF Ends, Streams, Traversals
<1>2. \A e \in Ends(d, c) : Past(e[1][1], e[1][2], e[2], d)' <=> Past(e[1][1], e[1][2], e[2], d) \/ e = x
  <2> SUFFICES ASSUME NEW e \in Ends(d, c)
               PROVE  Past(e[1][1], e[1][2], e[2], d)' <=> Past(e[1][1], e[1][2], e[2], d) \/ e = x
    OBVIOUS
  <2>1. PICK u, n, m : u = e[1][1] /\ n = e[1][2] /\ m = e[2]
    OBVIOUS
  <2>2. u \in Thread /\ n \in DOMAIN prog[u] /\ m \in DOMAIN Streams(<<u, n>>, d) /\ e = <<<<u, n>>, m>>
    BY <2>1, EndsIs
  <2>3. CASE u = t
    <3>1. e = x <=> (n = at[t] /\ m = k[t])
      BY <2>2, <2>3
    <3>2. QED
      BY <2>1, <2>2, <2>3, <3>1
  <2>4. CASE u # t
    <3>1. Same(u) /\ e # x
      BY <2>2, <2>4
    <3>2. Past(u, n, m, d)' <=> Past(u, n, m, d)
      BY <3>1 DEF Past, Same
    <3>3. QED
      BY <2>1, <3>1, <3>2
  <2>5. QED
    BY <2>3, <2>4
<1>3. x \in Ends(d, c) <=> s[k[t]] = c
  BY EndsIs
<1>4. x \notin Passed(d, c)
  <2>1. at[t] \in Nat /\ k[t] \in Nat
    BY DEF Typing
  <2>2. ~Past(t, at[t], k[t], d)
    BY <2>1 DEF Past, Beyond
  <2>3. QED
    BY <2>2 DEF Passed
<1> HIDE DEF x
<1>5. CASE s[k[t]] = c
  <2>1. Passed(d, c)' = Passed(d, c) \cup {x}
    BY <1>1, <1>2, <1>3, <1>5 DEF Passed
  <2>2. IsFiniteSet(Passed(d, c))
    BY EndsFinite, FS_Subset DEF Passed
  <2>3. Cardinality(Passed(d, c) \cup {x}) = Cardinality(Passed(d, c)) + 1
    BY <1>4, <2>2, FS_AddElement
  <2>4. QED
    BY <1>5, <2>1, <2>3
<1>6. CASE s[k[t]] # c
  BY <1>1, <1>2, <1>3, <1>6 DEF Passed
<1>7. QED
  BY <1>5, <1>6

\* The steps of thread t that are not past a statement more in direction d:
\* before or after the phase, into it, over it when it is empty, and to the
\* next traversal.
Unmoved(t, d) ==
    \/ /\ at'[t] = at[t]
       /\ \/ phase[t] \in Beyond(d) /\ phase'[t] \in Beyond(d)
          \/ phase[t] \notin Beyond(d) \cup {d} /\ phase'[t] \notin Beyond(d) \cup {d}
          \/ phase[t] \notin Beyond(d) \cup {d} /\ phase'[t] = d /\ k'[t] = 1
          \/ phase[t] = d /\ phase'[t] \in Beyond(d) /\ Streams(<<t, at[t]>>, d) = <<>>
    \/ at'[t] = at[t] + 1 /\ phase[t] \in Beyond(d) /\ phase'[t] = "next"

LEMMA UnmovedPasses ==
  ASSUME Typing, prog' = prog, NEW t \in Thread, \A u \in Thread \ {t} : Same(u),
         NEW d \in {"get", "put"}, Unmoved(t, d), NEW c
  PROVE  Passed(d, c)' = Passed(d, c)
<1>1. ASSUME NEW n \in DOMAIN prog[t], NEW m \in DOMAIN Streams(<<t, n>>, d)
      PROVE  Past(t, n, m, d)' <=> Past(t, n, m, d)
  <2>1. n \in Nat /\ at[t] \in Nat
    BY DEF Typing
  <2>2. m \in Nat \ {0}
    <3>1. PICK s : s = Streams(<<t, n>>, d)
      OBVIOUS
    <3>2. s \in Seq(Chan) /\ m \in DOMAIN s
      BY <3>1, StreamsType
    <3>3. QED
      BY <3>2
  <2>3. d \notin Beyond(d) /\ "next" \notin Beyond(d) \cup {d}
    BY DEF Beyond
  <2>4. n = at[t] => Streams(<<t, at[t]>>, d) # <<>>
    OBVIOUS
  <2>5. QED
    BY <2>1, <2>2, <2>3, <2>4 DEF Past, Unmoved
<1>2. QED
  BY <1>1, NonePasses

\* A step of t past the statement it is at.
LEMMA MovedPasses ==
  ASSUME Typing, prog' = prog, NEW t \in Thread, \A u \in Thread \ {t} : Same(u),
         NEW d \in {"get", "put"}, NEW c, ~Done(t), phase[t] = d, at' = at,
         NEW s, s = Streams(<<t, at[t]>>, d), k[t] \in DOMAIN s,
         \/ phase' = phase /\ k' = [k EXCEPT ![t] = @ + 1]
         \/ phase'[t] \in Beyond(d) /\ k[t] = Len(s)
  PROVE  IF s[k[t]] = c THEN Cardinality(Passed(d, c))' = Cardinality(Passed(d, c)) + 1
                        ELSE Passed(d, c)' = Passed(d, c)
<1>1. at[t] \in DOMAIN prog[t]
  BY DEF Typing, Done
<1>2. s \in Seq(Chan) /\ k[t] \in Nat
  BY <1>1, StreamsType DEF Typing
<1>3. d \notin Beyond(d)
  BY DEF Beyond
<1>4. ASSUME NEW n \in DOMAIN prog[t], NEW m \in DOMAIN Streams(<<t, n>>, d)
      PROVE  Past(t, n, m, d)' <=> Past(t, n, m, d) \/ (n = at[t] /\ m = k[t])
  <2>1. n \in Nat /\ at[t] \in Nat
    BY DEF Typing
  <2>2. CASE n # at[t]
    BY <2>1, <2>2 DEF Past
  <2>3. CASE n = at[t]
    <3>1. m \in Nat /\ m <= Len(s) /\ Len(s) \in Nat
      BY <1>2, <2>3
    <3>2. CASE phase' = phase /\ k' = [k EXCEPT ![t] = @ + 1]
      <4>1. k'[t] = k[t] + 1
        BY <3>2 DEF Typing
      <4>2. QED
        BY <1>2, <1>3, <2>1, <2>3, <3>1, <3>2, <4>1 DEF Past
    <3>3. CASE phase'[t] \in Beyond(d) /\ k[t] = Len(s)
      BY <1>2, <1>3, <2>1, <2>3, <3>1, <3>3 DEF Past
    <3>4. QED
      BY <3>2, <3>3
  <2>4. QED
    BY <2>2, <2>3
<1>5. QED
  BY <1>1, <1>4, OnePasses

\* An item is taken by the receive that was waiting for it, and a put makes one.
LEMMA AccountStep == IInv /\ Account /\ [Next]_vars => Account'
<1> SUFFICES ASSUME IInv, Account, [Next]_vars PROVE Account'
  OBVIOUS
<1> USE DEF IInv
<1>0. prog' = prog
  BY DEF Next, vars, threadVars, Run, Enter, Claim, Get, Body, Put, Release, NoClaim, NoGet, NoPut,
         Skip, Leave
<1>1. ASSUME NEW t \in Thread, \A u \in Thread \ {t} : Same(u), box' = box,
             Unmoved(t, "get"), Unmoved(t, "put")
      PROVE  Account'
  <2>1. \A c \in Chan : Passed("get", c)' = Passed("get", c) /\ Passed("put", c)' = Passed("put", c)
    BY <1>0, <1>1, UnmovedPasses
  <2>2. QED
    BY <1>1, <2>1 DEF Account
<1>2. ASSUME NEW t \in Thread, Run(t), ~Get(t), ~Put(t)
      PROVE  Account'
  <2>1. \A u \in Thread \ {t} : Same(u)
    BY <1>2 DEF Run, Enter, Claim, Body, Release, NoClaim, NoGet, NoPut, Skip, Leave, Goto, Loop, Same, Typing
  <2>2. box' = box
    BY <1>2 DEF Run, Enter, Claim, Body, Release, NoClaim, NoGet, NoPut, Skip, Leave
  <2>3. Streams(<<t, at[t]>>, "get") = Trav(t).gets /\ Streams(<<t, at[t]>>, "put") = Trav(t).puts
    BY DEF Streams, Trav
  <2>4. \A ph : Goto(t, ph) => phase'[t] = ph /\ k'[t] = 1
    BY DEF Goto, Typing
  <2>5. CASE Enter(t)
    <3>1. phase[t] = "next" /\ at' = at /\ phase'[t] = "claim" /\ k'[t] = 1
      BY <2>4, <2>5 DEF Enter, At
    <3>2. Unmoved(t, "get") /\ Unmoved(t, "put")
      BY <3>1 DEF Unmoved, Beyond
    <3>3. QED
      BY <1>1, <2>1, <2>2, <3>2
  <2>6. CASE Claim(t)
    <3>1. phase[t] = "claim" /\ at' = at /\ (phase'[t] = "claim" \/ (phase'[t] = "get" /\ k'[t] = 1))
      BY <2>4, <2>6 DEF Claim, At, Loop
    <3>2. QED
      BY <1>1, <2>1, <2>2, <3>1 DEF Unmoved, Beyond
  <2>7. CASE NoClaim(t)
    <3>1. phase[t] = "claim" /\ at' = at /\ phase'[t] = "get" /\ k'[t] = 1
      BY <2>4, <2>7 DEF NoClaim, Skip, At
    <3>2. Unmoved(t, "get") /\ Unmoved(t, "put")
      BY <3>1 DEF Unmoved, Beyond
    <3>3. QED
      BY <1>1, <2>1, <2>2, <3>2
  <2>8. CASE NoGet(t)
    <3>1. phase[t] = "get" /\ at' = at /\ phase'[t] = "body" /\ k'[t] = 1 /\ Trav(t).gets = <<>>
      BY <2>4, <2>8 DEF NoGet, Skip, At
    <3>2. Unmoved(t, "get") /\ Unmoved(t, "put")
      BY <3>1, <2>3 DEF Unmoved, Beyond
    <3>3. QED
      BY <1>1, <2>1, <2>2, <3>2
  <2>9. CASE Body(t)
    <3>1. phase[t] = "body" /\ at' = at /\ phase'[t] = "put" /\ k'[t] = 1
      BY <2>4, <2>9 DEF Body, At
    <3>2. Unmoved(t, "get") /\ Unmoved(t, "put")
      BY <3>1 DEF Unmoved, Beyond
    <3>3. QED
      BY <1>1, <2>1, <2>2, <3>2
  <2>10. CASE NoPut(t)
    <3>1. phase[t] = "put" /\ at' = at /\ phase'[t] = "release" /\ k'[t] = 1 /\ Trav(t).puts = <<>>
      BY <2>4, <2>10 DEF NoPut, Skip, At
    <3>2. Unmoved(t, "get") /\ Unmoved(t, "put")
      BY <3>1, <2>3 DEF Unmoved, Beyond
    <3>3. QED
      BY <1>1, <2>1, <2>2, <3>2
  <2>11. CASE Release(t)
    <3>1. phase[t] = "release" /\ \/ at' = at /\ phase'[t] = "release"
                                  \/ at'[t] = at[t] + 1 /\ phase'[t] = "next"
      BY <2>4, <2>11 DEF Release, At, Typing
    <3>2. QED
      BY <1>1, <2>1, <2>2, <3>1 DEF Unmoved, Beyond
  <2>12. CASE Leave(t)
    <3>1. phase[t] = "release" /\ at'[t] = at[t] + 1 /\ phase'[t] = "next"
      BY <2>4, <2>12 DEF Leave, At, Typing
    <3>2. QED
      BY <1>1, <2>1, <2>2, <3>1 DEF Unmoved, Beyond
  <2>13. QED
    BY <1>2, <2>5, <2>6, <2>7, <2>8, <2>9, <2>10, <2>11, <2>12 DEF Run
<1>3. ASSUME NEW t \in Thread, NEW d \in {"get", "put"}, NEW s, s = Streams(<<t, at[t]>>, d), s # <<>>,
             At(t, d), NEW ph, ph = (IF d = "get" THEN "body" ELSE "release"), Loop(t, s, ph), UNCHANGED <<prog, at, cid>>,
             NEW e, e = s[k[t]],
             box' = [box EXCEPT ![e] = @ + IF d = "get" THEN -1 ELSE 1]
      PROVE  Account'
  <2>1. phase[t] = d /\ ~Done(t)
    BY <1>3 DEF At
  <2>2. s \in Seq(Chan)
    <3>1. at[t] \in DOMAIN prog[t]
      BY <2>1 DEF Typing, Done
    <3>2. QED
      BY <1>3, <3>1, StreamsType
  <2>3. Index(k[t], s) /\ k[t] \in DOMAIN s
    <3>1. Inside(t)
      BY <2>1 DEF Position
    <3>2. Index(k[t], s)
      BY <1>3, <2>1, <3>1 DEF Inside, Streams, Trav
    <3>3. QED
      BY <1>3, <3>2 DEF Index
  <2>4. \/ phase' = phase /\ k' = [k EXCEPT ![t] = @ + 1]
        \/ phase' = [phase EXCEPT ![t] = ph] /\ k' = [k EXCEPT ![t] = 1] /\ k[t] = Len(s)
    BY <1>3, <2>2, <2>3, LoopMoves
  <2>5. \A u \in Thread \ {t} : Same(u)
    BY <1>3, <2>4 DEF Same, Typing
  <2>6. phase' = phase \/ phase'[t] = ph
    BY <2>4 DEF Typing
  <2>7. \A c : IF s[k[t]] = c THEN Cardinality(Passed(d, c))' = Cardinality(Passed(d, c)) + 1
                              ELSE Passed(d, c)' = Passed(d, c)
    <3>1. \/ phase' = phase /\ k' = [k EXCEPT ![t] = @ + 1]
          \/ phase'[t] \in Beyond(d) /\ k[t] = Len(s)
      BY <1>3, <2>4 DEF Beyond, Typing
    <3>2. QED
      BY <1>0, <1>3, <2>1, <2>3, <2>5, <3>1, MovedPasses
  <2>8. \A q \in {"get", "put"} \ {d} : \A c : Passed(q, c)' = Passed(q, c)
    <3>1. \A q \in {"get", "put"} \ {d} : Unmoved(t, q)
      BY <1>3, <2>1, <2>6 DEF Unmoved, Beyond
    <3>2. QED
      BY <1>0, <2>5, <3>1, UnmovedPasses
  <2>9. \A q \in {"get", "put"} : \A c : Cardinality(Passed(q, c)) \in Nat
    <3>1. \A q \in {"get", "put"} : \A c : IsFiniteSet(Passed(q, c))
      BY EndsFinite, FS_Subset DEF Passed
    <3>2. QED
      BY <3>1, FS_CardinalityType
  <2>10. e \in Chan
    BY <1>3, <2>2, <2>3
  <2>11. ASSUME NEW c \in Chan
         PROVE  box'[c] + Cardinality(Passed("get", c))' = Cardinality(Passed("put", c))'
    <3>1. box[c] + Cardinality(Passed("get", c)) = Cardinality(Passed("put", c)) /\ box[c] \in Int
      BY DEF Account, Typing
    <3>2. CASE c = e
      <4>1. box'[c] = box[c] + IF d = "get" THEN -1 ELSE 1
        BY <1>3, <3>2 DEF Typing
      <4>2. Cardinality(Passed(d, c))' = Cardinality(Passed(d, c)) + 1
        BY <1>3, <2>7, <3>2
      <4>3. CASE d = "get"
        <5>1. Passed("put", c)' = Passed("put", c)
          BY <2>8, <4>3
        <5>2. QED
          BY <2>9, <3>1, <4>1, <4>2, <4>3, <5>1
      <4>4. CASE d = "put"
        <5>1. Passed("get", c)' = Passed("get", c)
          BY <2>8, <4>4
        <5>2. QED
          BY <2>9, <3>1, <4>1, <4>2, <4>4, <5>1
      <4>5. QED
        BY <4>3, <4>4
    <3>3. CASE c # e
      <4>1. box'[c] = box[c]
        BY <1>3, <3>3 DEF Typing
      <4>2. Passed(d, c)' = Passed(d, c)
        BY <1>3, <2>7, <3>3
      <4>3. \A q \in {"get", "put"} : Passed(q, c)' = Passed(q, c)
        BY <2>8, <4>2
      <4>4. QED
        BY <3>1, <4>1, <4>3
    <3>4. QED
      BY <3>2, <3>3
  <2>12. QED
    BY <2>11 DEF Account
<1>4. ASSUME NEW t \in Thread, Get(t) PROVE Account'
  <2>1. Streams(<<t, at[t]>>, "get") = Trav(t).gets
    BY DEF Streams, Trav
  <2>2. /\ At(t, "get") /\ Trav(t).gets # <<>> /\ Loop(t, Trav(t).gets, "body")
        /\ UNCHANGED <<prog, at, cid>>
        /\ box' = [box EXCEPT ![Trav(t).gets[k[t]]] = @ + IF "get" = "get" THEN -1 ELSE 1]
    <3>1. box' = [box EXCEPT ![Trav(t).gets[k[t]]] = @ - 1]
      BY <1>4 DEF Get
    <3>2. PICK e : e = Trav(t).gets[k[t]]
      OBVIOUS
    <3>3. [box EXCEPT ![e] = @ - 1] = [box EXCEPT ![e] = @ + -1]
      BY DEF Typing
    <3>4. QED
      BY <1>4, <3>1, <3>2, <3>3 DEF Get
  <2>3. QED
    BY <1>3, <2>1, <2>2
<1>5. ASSUME NEW t \in Thread, Put(t) PROVE Account'
  <2>1. Streams(<<t, at[t]>>, "put") = Trav(t).puts
    BY DEF Streams, Trav
  <2>2. /\ At(t, "put") /\ Trav(t).puts # <<>> /\ Loop(t, Trav(t).puts, "release")
        /\ UNCHANGED <<prog, at, cid>>
        /\ box' = [box EXCEPT ![Trav(t).puts[k[t]]] = @ + IF "put" = "get" THEN -1 ELSE 1]
    BY <1>5 DEF Put
  <2>3. QED
    BY <1>3, <2>1, <2>2
<1>6. CASE UNCHANGED vars
  <2>1. box' = box /\ \A u \in Thread : Same(u)
    BY <1>6 DEF vars, threadVars, Same
  <2>2. \A d, c : Passed(d, c)' = Passed(d, c)
    <3>1. at' = at /\ phase' = phase /\ k' = k
      BY <1>6 DEF vars, threadVars
    <3>2. QED
      BY <1>0, <3>1 DEF Passed, Ends, Streams, Traversals, Past
  <2>3. QED
    BY <2>1, <2>2 DEF Account
<1>7. QED
  BY <1>2, <1>4, <1>5, <1>6 DEF Next

\* The sends and receives that are still to come.
Left(d, c) == Ends(d, c) \ Passed(d, c)

LEMMA LeftIs ==
  ASSUME Typing, NEW d \in {"get", "put"}, NEW c
  PROVE  /\ IsFiniteSet(Left(d, c)) /\ Cardinality(Left(d, c)) \in Nat
         /\ Cardinality(Ends(d, c)) \in Nat /\ Cardinality(Passed(d, c)) \in Nat
         /\ Cardinality(Left(d, c)) = Cardinality(Ends(d, c)) - Cardinality(Passed(d, c))
         /\ Left(d, c) = {} <=> Cardinality(Left(d, c)) = 0
         /\ Left(d, c) # {} => \E u \in Thread : ~Done(u) /\ Uses(u, d, c)
<1>1. IsFiniteSet(Ends(d, c)) /\ Passed(d, c) \subseteq Ends(d, c) /\ Left(d, c) \subseteq Ends(d, c)
  BY EndsFinite DEF Passed, Left
<1>2. IsFiniteSet(Passed(d, c)) /\ IsFiniteSet(Left(d, c))
  BY <1>1, FS_Subset
<1>3. Ends(d, c) \cap Passed(d, c) = Passed(d, c)
  BY <1>1
<1>4. Cardinality(Left(d, c)) = Cardinality(Ends(d, c)) - Cardinality(Passed(d, c))
  BY <1>1, <1>3, FS_Difference DEF Left
<1>5. ASSUME NEW e \in Left(d, c) PROVE \E u \in Thread : ~Done(u) /\ Uses(u, d, c)
  <2>1. e \in Ends(d, c) /\ ~Past(e[1][1], e[1][2], e[2], d)
    BY <1>5 DEF Left, Passed
  <2>2. PICK u, n : u = e[1][1] /\ n = e[1][2]
    OBVIOUS
  <2>3. u \in Thread /\ n \in DOMAIN prog[u]
    BY <2>1, <2>2, EndsIs
  <2>4. ~ (n < at[u])
    BY <2>1, <2>2 DEF Past
  <2>5. ~Done(u)
    BY <2>4, <2>3 DEF Done, Typing
  <2>6. QED
    BY <2>1, <2>2, <2>5, <2>3 DEF Uses
<1>6. QED
  BY <1>1, <1>2, <1>4, <1>5, FS_EmptySet, FS_CardinalityType

\* Thread t waits at a statement that sends to or receives from channel c.
WaitsAt(t, d, c) == /\ ~Done(t) /\ Uses(t, d, c) /\ Left(d, c) # {}
                    /\ box[c] = (IF d = "get" THEN 0 ELSE 1)

LEMMA WaitsIs ==
  ASSUME IInv, NEW t \in Thread, Waits(t)
  PROVE  \E d \in {"get", "put"} : \E c \in Chan : WaitsAt(t, d, c)
<1> USE DEF IInv
<1>1. PICK d \in {"get", "put"} : /\ At(t, d) /\ Streams(<<t, at[t]>>, d) # <<>>
                                  /\ box[Streams(<<t, at[t]>>, d)[k[t]]] = (IF d = "get" THEN 0 ELSE 1)
  BY DEF Waits, Streams, Trav
<1>2. PICK s : s = Streams(<<t, at[t]>>, d)
  OBVIOUS
<1>3. ~Done(t) /\ phase[t] = d /\ at[t] \in DOMAIN prog[t] /\ Inside(t)
  BY <1>1 DEF At, Done, Typing, Position
<1>4. s \in Seq(Chan)
  BY <1>2, <1>3, StreamsType
<1>5. k[t] \in DOMAIN s /\ k[t] \in Nat /\ at[t] \in Nat
  BY <1>1, <1>2, <1>3 DEF Inside, Index, Streams, Trav, Typing
<1>6. PICK c : c = s[k[t]]
  OBVIOUS
<1>7. c \in Chan /\ box[c] = (IF d = "get" THEN 0 ELSE 1)
  BY <1>1, <1>2, <1>4, <1>5, <1>6
<1>8. PICK e : e = <<<<t, at[t]>>, k[t]>>
  OBVIOUS
<1>9. e \in Ends(d, c) /\ e[1][1] = t /\ e[1][2] = at[t] /\ e[2] = k[t]
  BY <1>2, <1>3, <1>5, <1>6, <1>8, EndsIs
<1>10. e \in Left(d, c)
  <2>1. ~Past(t, at[t], k[t], d)
    BY <1>3, <1>5 DEF Past, Beyond
  <2>2. QED
    BY <1>9, <2>1 DEF Left, Passed
<1>11. WaitsAt(t, d, c)
  BY <1>3, <1>7, <1>9, <1>10 DEF WaitsAt, Uses
<1>12. QED
  BY <1>7, <1>11

\* A set of threads has one of the lowest number and one of the highest.
LEMMA Extremes ==
  ASSUME NEW N \in Nat, NEW rank \in [Thread -> 1 .. N], NEW S \in SUBSET Thread, S # {}
  PROVE  /\ \E t \in S : \A u \in S : ~ (rank[u] < rank[t])
         /\ \E t \in S : \A u \in S : ~ (rank[t] < rank[u])
<1>1. \A t \in S : rank[t] \in Nat /\ N - rank[t] \in Nat
  OBVIOUS
<1> DEFINE R == {rank[t] : t \in S}
           Q == {N - rank[t] : t \in S}
<1>2. \A X \in SUBSET Nat : X # {} => \E m \in X : \A n \in X : ~ (n < m)
  <2> SUFFICES ASSUME NEW X \in SUBSET Nat, X # {} PROVE \E m \in X : \A n \in X : ~ (n < m)
    OBVIOUS
  <2>1. PICK m \in X : \A n \in X : ~ (<<n, m>> \in OpToRel(<, Nat))
    BY NatLessThanWellFounded, WFMin
  <2>2. \A n \in X : ~ (n < m)
    BY <2>1 DEF OpToRel
  <2>3. QED
    BY <2>2
<1>3. \E t \in S : \A u \in S : ~ (rank[u] < rank[t])
  <2>1. R \in SUBSET Nat /\ R # {}
    BY <1>1
  <2>2. PICK m \in R : \A n \in R : ~ (n < m)
    BY <1>2, <2>1
  <2>3. QED
    BY <2>2
<1>4. \E t \in S : \A u \in S : ~ (rank[t] < rank[u])
  <2>1. Q \in SUBSET Nat /\ Q # {}
    BY <1>1
  <2>2. PICK m \in Q : \A n \in Q : ~ (n < m)
    BY <1>2, <2>1
  <2>3. PICK t \in S : m = N - rank[t]
    BY <2>2
  <2>4. ASSUME NEW u \in S PROVE ~ (rank[t] < rank[u])
    <3>1. ~ (N - rank[u] < N - rank[t])
      BY <2>2, <2>3
    <3>2. QED
      BY <1>1, <3>1
  <2>5. QED
    BY <2>4
<1>5. QED
  BY <1>3, <1>4

\* The other end of what a thread waits for belongs to a thread that is not done.
LEMMA Partner ==
  ASSUME IInv, Account, Streamed, NEW t \in Thread, NEW c \in Chan
  PROVE  /\ WaitsAt(t, "get", c) => \E u \in Thread : ~Done(u) /\ Uses(u, "put", c)
         /\ WaitsAt(t, "put", c) => \E u \in Thread : ~Done(u) /\ Uses(u, "get", c)
<1>1. box[c] + Cardinality(Passed("get", c)) = Cardinality(Passed("put", c))
  BY DEF Account
<1>2. Cardinality(Ends("put", c)) = Cardinality(Ends("get", c))
  BY DEF Streamed
<1>3. \A d \in {"get", "put"} :
         /\ Cardinality(Left(d, c)) \in Nat
         /\ Cardinality(Ends(d, c)) \in Nat /\ Cardinality(Passed(d, c)) \in Nat
         /\ Cardinality(Left(d, c)) = Cardinality(Ends(d, c)) - Cardinality(Passed(d, c))
         /\ Left(d, c) = {} <=> Cardinality(Left(d, c)) = 0
         /\ Left(d, c) # {} => \E u \in Thread : ~Done(u) /\ Uses(u, d, c)
  BY LeftIs DEF IInv
<1>4. WaitsAt(t, "get", c) => Left("put", c) # {}
  BY <1>1, <1>2, <1>3 DEF WaitsAt
<1>5. WaitsAt(t, "put", c) => Left("get", c) # {}
  BY <1>1, <1>2, <1>3 DEF WaitsAt
<1>6. QED
  BY <1>3, <1>4, <1>5

\* If all wait that are not done, all are done: a thread of the lowest number
\* among those that wait for an item waits for one below it that does, and then
\* one of the highest among those that wait for room waits for one above it.
LEMMA AllWaitsAllDone ==
  ASSUME IInv, Account, Streamed, \A t \in Thread : Done(t) \/ Waits(t)
  PROVE  AllDone
<1>1. PICK rank \in [Thread -> 1 .. Cardinality(Thread)] :
         \A t, u \in Thread : \A c \in Chan : Uses(t, "put", c) /\ Uses(u, "get", c) => rank[t] < rank[u]
  BY DEF Streamed
<1>2. \A t \in Thread : Done(t) \/ \E d \in {"get", "put"} : \E c \in Chan : WaitsAt(t, d, c)
  BY WaitsIs
<1>3. Cardinality(Thread) \in Nat
  BY ThreadAssumption, FS_CardinalityType
<1> DEFINE G == {t \in Thread : \E c \in Chan : WaitsAt(t, "get", c)}
           P == {t \in Thread : \E c \in Chan : WaitsAt(t, "put", c)}
<1>4. G = {}
  <2> SUFFICES ASSUME G # {} PROVE FALSE
    OBVIOUS
  <2>1. PICK t \in G : \A u \in G : ~ (rank[u] < rank[t])
    <3> HIDE DEF G
    <3>1. G \in SUBSET Thread
      BY DEF G
    <3>2. QED
      BY <1>3, <3>1, Extremes
  <2>2. PICK c \in Chan : WaitsAt(t, "get", c)
    OBVIOUS
  <2>3. PICK u \in Thread : ~Done(u) /\ Uses(u, "put", c)
    BY <2>2, Partner
  <2>4. rank[u] < rank[t]
    BY <1>1, <2>2, <2>3 DEF WaitsAt
  <2>5. \A d \in Chan : ~WaitsAt(u, "put", d)
    <3> SUFFICES ASSUME NEW d \in Chan, WaitsAt(u, "put", d) PROVE FALSE
      OBVIOUS
    <3>1. c = d
      BY <2>3 DEF WaitsAt, Streamed
    <3>2. QED
      BY <2>2, <3>1 DEF WaitsAt
  <2>6. u \in G
    BY <1>2, <2>3, <2>5
  <2>7. QED
    BY <2>1, <2>4, <2>6
<1>5. P = {}
  <2> SUFFICES ASSUME P # {} PROVE FALSE
    OBVIOUS
  <2>1. PICK t \in P : \A u \in P : ~ (rank[t] < rank[u])
    <3> HIDE DEF P
    <3>1. P \in SUBSET Thread
      BY DEF P
    <3>2. QED
      BY <1>3, <3>1, Extremes
  <2>2. PICK c \in Chan : WaitsAt(t, "put", c)
    OBVIOUS
  <2>3. PICK u \in Thread : ~Done(u) /\ Uses(u, "get", c)
    BY <2>2, Partner
  <2>4. rank[t] < rank[u]
    BY <1>1, <2>2, <2>3 DEF WaitsAt
  <2>5. u \in P
    BY <1>2, <1>4, <2>3
  <2>6. QED
    BY <2>1, <2>4, <2>5
<1>6. QED
  BY <1>2, <1>4, <1>5 DEF AllDone

\* At the join nothing is claimed and, in a streamed fork, nothing is left in a
\* mailbox.
LEMMA JoinIsClean ==
  ASSUME IInv, Account, AllDone
  PROVE  AllFree /\ (Streamed => \A c \in Chan : box[c] = 0)
<1> USE DEF IInv
<1>1. \A t \in Thread : Holds(t) = {}
  <2>1. \A t \in Thread : phase[t] = "next"
    BY DEF AllDone, Position, Inside
  <2>2. QED
    BY <2>1 DEF Holds
<1>2. \A i, kd : Holding(i, kd) = {}
  BY <1>1, HoldingIs DEF Owns
<1>3. AllFree
  BY <1>2, FS_EmptySet DEF AllFree, CountsExact
<1>4. ASSUME NEW d \in {"get", "put"}, NEW c PROVE Passed(d, c) = Ends(d, c)
  <2>1. \A t \in Thread : \A n \in DOMAIN prog[t] : n < at[t]
    BY DEF AllDone, Done, Typing
  <2>2. \A e \in Ends(d, c) : Past(e[1][1], e[1][2], e[2], d)
    BY <2>1, EndsIs DEF Past
  <2>3. QED
    BY <2>2 DEF Passed
<1>5. ASSUME Streamed, NEW c \in Chan PROVE box[c] = 0
  <2>1. box[c] + Cardinality(Passed("get", c)) = Cardinality(Passed("put", c))
    BY DEF Account
  <2>2. Cardinality(Ends("put", c)) = Cardinality(Ends("get", c))
    BY <1>5 DEF Streamed
  <2>3. Cardinality(Ends("get", c)) \in Nat /\ box[c] \in Nat
    BY LeftIs DEF Typing
  <2>4. QED
    BY <1>4, <2>1, <2>2, <2>3
<1>6. QED
  BY <1>3, <1>5

\* Before the fork nothing is sent.
LEMMA InitAccount == Init => Account
<1> SUFFICES ASSUME Init PROVE Account
  OBVIOUS
<1>1. Typing
  BY InitInv DEF IInv
<1>2. ASSUME NEW d \in {"get", "put"}, NEW c PROVE Passed(d, c) = {}
  <2>1. \A t \in Thread : \A n \in DOMAIN prog[t] : ~ (n < at[t]) /\ phase[t] = "next"
    BY <1>1 DEF Init, Typing
  <2>2. "next" \notin Beyond(d) \cup {d}
    BY <1>2 DEF Beyond
  <2>3. \A t \in Thread : \A n \in DOMAIN prog[t] : \A m : ~Past(t, n, m, d)
    BY <2>1, <2>2 DEF Past
  <2>4. \A e \in Ends(d, c) : ~Past(e[1][1], e[1][2], e[2], d)
    BY <2>3, EndsIs
  <2>5. QED
    BY <2>4 DEF Passed
<1>3. \A c \in Chan : box[c] = 0
  BY DEF Init
<1>4. Cardinality({}) = 0
  BY FS_EmptySet
<1>5. QED
  BY <1>2, <1>3, <1>4 DEF Account

\* A fork whose streams go upwards through its threads, each sent what is
\* received from it, is never stuck before its join, and nothing is left
\* claimed or unread there: for any streams, threads and claims.
THEOREM StreamedForksAreNeverStuck == Spec => []StreamedNeverStuck
<1>1. IInv /\ Account => StreamedNeverStuck
  BY AllWaitsAllDone, JoinIsClean DEF StreamedNeverStuck
<1>2. QED
  BY <1>1, InitAccount, AccountStep, Invariance, PTL DEF Spec
=============================================================================
