--------------------------- MODULE BuildTask_proofs ---------------------------
(***************************************************************************)
(* Proofs about the registry of targets and the build task over it: for    *)
(* every set of built-ins, every set of environments, any sources and      *)
(* tasks, and any number of runs and changes.                              *)
(***************************************************************************)
EXTENDS BuildTask, WellFoundedInduction, TLAPS

-----------------------------------------------------------------------------
(* Registration and discovery, for every sequence of built-in targets,
   every environment and every plugin: what the names resolve to after
   each register() of a family and each entry point of a scan *)

\* A name of t resolves to t, or to a target that replaces that name.
Resolves(reg, t) ==
    \A n \in Claimed(t) : n \in DOMAIN reg /\ (reg[n] = t \/ n \in reg[n].replaces)

\* The targets of a registry.
Values(reg) == {reg[n] : n \in DOMAIN reg}

\* The registries of the n-th iteration of register()'s caller, and of the
\* n-th entry point of a scan.
FamilySteps(f, reg, ts) == /\ f[0] = [ok |-> TRUE, reg |-> reg]
                           /\ \A n \in 1 .. Len(ts) : f[n] = Step(f[n - 1], ts[n])
ScanSteps(g, reg, eps) == /\ g[0] = [reg |-> reg, errors |-> {}]
                          /\ \A n \in 1 .. Len(eps) : g[n] = LoadNext(g[n - 1], eps[n])

-----------------------------------------------------------------------------
(* Induction and recursion up to a number *)

\* A set that holds 0 and is closed under the next number, up to m, holds
\* every number up to m.
LEMMA UpTo ==
  ASSUME NEW m \in Nat, NEW X, 0 \in X,
         \A n \in Nat : n < m /\ n \in X => n + 1 \in X
  PROVE  \A n \in 0 .. m : n \in X
<1> DEFINE Y == {n \in 0 .. m : n \notin X}
<1>1. SUFFICES ASSUME Y # {} PROVE FALSE
  OBVIOUS
<1>2. PICK x \in Y : \A y \in Y : ~ (<<y, x>> \in OpToRel(<, Nat))
  <2>1. Y \subseteq Nat
    OBVIOUS
  <2> HIDE DEF Y
  <2>2. QED
    BY <1>1, <2>1, NatLessThanWellFounded, WFMin
<1>3. \A y \in Y : ~ (y < x)
  <2> SUFFICES ASSUME NEW y \in Y, y < x PROVE FALSE
    OBVIOUS
  <2>1. ~ (<<y, x>> \in OpToRel(<, Nat))
    BY <1>2
  <2>2. y \in Nat /\ x \in Nat
    OBVIOUS
  <2> HIDE DEF Y
  <2>3. QED
    BY <2>1, <2>2 DEF OpToRel
<1>4. x \in 0 .. m /\ x # 0 /\ x - 1 \in 0 .. m /\ x - 1 < x /\ x - 1 < m
  OBVIOUS
<1>5. x - 1 \in X
  BY <1>3, <1>4
<1>6. QED
  BY <1>4, <1>5

\* The registries of a family exist: register() is called once a target.
LEMMA FamilyHasSteps ==
  ASSUME NEW reg, NEW ts, Len(ts) \in Nat
  PROVE  \E f : FamilySteps(f, reg, ts) /\ RegisterFamily(reg, ts) = f[Len(ts)]
<1> DEFINE NextOf(f, n) == IF n = 0 THEN [ok |-> TRUE, reg |-> reg] ELSE Step(f[n - 1], ts[n])
           X == {m \in Nat : \E f : f = [n \in 0 .. m |-> NextOf(f, n)]}
<1>1. 0 \in X
  <2> DEFINE f == [n \in 0 .. 0 |-> [ok |-> TRUE, reg |-> reg]]
  <2>1. f = [n \in 0 .. 0 |-> NextOf(f, n)]
    OBVIOUS
  <2>2. QED
    BY <2>1
<1>2. ASSUME NEW m \in Nat, m \in X PROVE m + 1 \in X
  <2>1. PICK f : f = [n \in 0 .. m |-> NextOf(f, n)]
    BY <1>2
  <2> DEFINE g == [n \in 0 .. m + 1 |-> IF n = m + 1 THEN NextOf(f, m + 1) ELSE f[n]]
  <2>2. ASSUME NEW n \in 0 .. m + 1 PROVE g[n] = NextOf(g, n)
    <3>1. CASE n = 0
      BY <2>1, <3>1
    <3>2. CASE n \in 1 .. m
      <4>1. g[n] = f[n] /\ g[n - 1] = f[n - 1]
        BY <3>2
      <4>2. f[n] = NextOf(f, n)
        <5>1. n \in 0 .. m
          BY <3>2
        <5> HIDE DEF NextOf
        <5>2. QED
          BY <2>1, <5>1
      <4>3. QED
        BY <3>2, <4>1, <4>2
    <3>3. CASE n = m + 1
      <4>1. g[n] = Step(f[m], ts[m + 1]) /\ g[n - 1] = f[m]
        BY <3>3
      <4>2. QED
        BY <3>3, <4>1
    <3>4. QED
      BY <3>1, <3>2, <3>3
  <2>3. g = [n \in 0 .. m + 1 |-> NextOf(g, n)]
    BY <2>2
  <2>4. \E h : h = [n \in 0 .. m + 1 |-> NextOf(h, n)]
    BY <2>3
  <2> HIDE DEF NextOf, g
  <2>5. QED
    BY <2>4
<1>3. Len(ts) \in X
  <2> HIDE DEF X
  <2>1. \A n \in 0 .. Len(ts) : n \in X
    BY <1>1, <1>2, UpTo
  <2>2. QED
    BY <2>1
<1> DEFINE after == CHOOSE f : f = [n \in 0 .. Len(ts) |-> NextOf(f, n)]
<1>4. after = [n \in 0 .. Len(ts) |-> NextOf(after, n)]
  BY <1>3
<1>5. RegisterFamily(reg, ts) = after[Len(ts)]
  BY DEF RegisterFamily
<1>6. FamilySteps(after, reg, ts)
  <2> HIDE DEF after
  <2>1. after[0] = [ok |-> TRUE, reg |-> reg]
    BY <1>4
  <2>2. ASSUME NEW n \in 1 .. Len(ts) PROVE after[n] = Step(after[n - 1], ts[n])
    <3>1. n \in 0 .. Len(ts) /\ n # 0
      OBVIOUS
    <3>2. after[n] = NextOf(after, n)
      <4> HIDE DEF NextOf
      <4>1. QED
        BY <1>4, <3>1
    <3>3. QED
      BY <3>1, <3>2
  <2>3. QED
    BY <2>1, <2>2 DEF FamilySteps
<1>7. QED
  BY <1>5, <1>6

\* So do those of a scan: an entry point is loaded once.
LEMMA ScanHasSteps ==
  ASSUME NEW reg, NEW eps, Len(eps) \in Nat
  PROVE  \E g : ScanSteps(g, reg, eps) /\ Scan(reg, eps) = g[Len(eps)]
<1> DEFINE NextOf(f, n) == IF n = 0 THEN [reg |-> reg, errors |-> {}] ELSE LoadNext(f[n - 1], eps[n])
           X == {m \in Nat : \E f : f = [n \in 0 .. m |-> NextOf(f, n)]}
<1>1. 0 \in X
  <2> DEFINE f == [n \in 0 .. 0 |-> [reg |-> reg, errors |-> {}]]
  <2>1. f = [n \in 0 .. 0 |-> NextOf(f, n)]
    OBVIOUS
  <2>2. QED
    BY <2>1
<1>2. ASSUME NEW m \in Nat, m \in X PROVE m + 1 \in X
  <2>1. PICK f : f = [n \in 0 .. m |-> NextOf(f, n)]
    BY <1>2
  <2> DEFINE g == [n \in 0 .. m + 1 |-> IF n = m + 1 THEN NextOf(f, m + 1) ELSE f[n]]
  <2>2. ASSUME NEW n \in 0 .. m + 1 PROVE g[n] = NextOf(g, n)
    <3>1. CASE n = 0
      BY <2>1, <3>1
    <3>2. CASE n \in 1 .. m
      <4>1. g[n] = f[n] /\ g[n - 1] = f[n - 1]
        BY <3>2
      <4>2. f[n] = NextOf(f, n)
        <5>1. n \in 0 .. m
          BY <3>2
        <5> HIDE DEF NextOf
        <5>2. QED
          BY <2>1, <5>1
      <4>3. QED
        BY <3>2, <4>1, <4>2
    <3>3. CASE n = m + 1
      <4>1. g[n] = LoadNext(f[m], eps[m + 1]) /\ g[n - 1] = f[m]
        BY <3>3
      <4>2. QED
        BY <3>3, <4>1
    <3>4. QED
      BY <3>1, <3>2, <3>3
  <2>3. g = [n \in 0 .. m + 1 |-> NextOf(g, n)]
    BY <2>2
  <2>4. \E h : h = [n \in 0 .. m + 1 |-> NextOf(h, n)]
    BY <2>3
  <2> HIDE DEF NextOf, g
  <2>5. QED
    BY <2>4
<1>3. Len(eps) \in X
  <2> HIDE DEF X
  <2>1. \A n \in 0 .. Len(eps) : n \in X
    BY <1>1, <1>2, UpTo
  <2>2. QED
    BY <2>1
<1> DEFINE after == CHOOSE f : f = [n \in 0 .. Len(eps) |-> NextOf(f, n)]
<1>4. after = [n \in 0 .. Len(eps) |-> NextOf(after, n)]
  BY <1>3
<1>5. Scan(reg, eps) = after[Len(eps)]
  BY DEF Scan
<1>6. ScanSteps(after, reg, eps)
  <2> HIDE DEF after
  <2>1. after[0] = [reg |-> reg, errors |-> {}]
    BY <1>4
  <2>2. ASSUME NEW n \in 1 .. Len(eps) PROVE after[n] = LoadNext(after[n - 1], eps[n])
    <3>1. n \in 0 .. Len(eps) /\ n # 0
      OBVIOUS
    <3>2. after[n] = NextOf(after, n)
      <4> HIDE DEF NextOf
      <4>1. QED
        BY <1>4, <3>1
    <3>3. QED
      BY <3>1, <3>2
  <2>3. QED
    BY <2>1, <2>2 DEF ScanSteps
<1>7. QED
  BY <1>5, <1>6

-----------------------------------------------------------------------------
(* register() *)

\* A target that collides with no name takes its own, and whatever resolved
\* before still does.
LEMMA PutKeeps ==
  ASSUME NEW reg, NEW u, ~Collides(reg, u)
  PROVE  /\ DOMAIN Put(reg, u) = DOMAIN reg \cup Claimed(u)
         /\ Resolves(Put(reg, u), u)
         /\ \A t : Resolves(reg, t) => Resolves(Put(reg, u), t)
         /\ Values(Put(reg, u)) \subseteq Values(reg) \cup {u}
<1> DEFINE new == Put(reg, u)
<1>1. /\ DOMAIN new = DOMAIN reg \cup Claimed(u)
      /\ \A n \in DOMAIN new : new[n] = IF n \in Claimed(u) THEN u ELSE reg[n]
  BY DEF Put
<1>2. \A n \in Claimed(u) \cap DOMAIN reg : n \in u.replaces
  BY DEF Collides
<1> HIDE DEF new
<1>3. Resolves(new, u)
  BY <1>1 DEF Resolves
<1>4. ASSUME NEW t, Resolves(reg, t) PROVE Resolves(new, t)
  BY <1>1, <1>2, <1>4 DEF Resolves
<1>5. Values(new) \subseteq Values(reg) \cup {u}
  BY <1>1 DEF Values
<1>6. QED
  BY <1>1, <1>3, <1>4, <1>5 DEF new

\* A family's flag and registry.
Result(r) == r = [ok |-> r.ok, reg |-> r.reg] /\ r.ok \in BOOLEAN

\* One call succeeds and puts the target, or fails and changes nothing.
LEMMA StepIs ==
  ASSUME NEW r, Result(r), NEW t
  PROVE  /\ Result(Step(r, t))
         /\ Step(r, t).ok <=> r.ok /\ Registrable(r.reg, t)
         /\ Step(r, t).reg = IF Step(r, t).ok THEN Put(r.reg, t) ELSE r.reg
<1>1. CASE r.ok /\ Registrable(r.reg, t)
  BY <1>1 DEF Step, Result
<1>2. CASE ~(r.ok /\ Registrable(r.reg, t))
  <2>1. Step(r, t) = [ok |-> FALSE, reg |-> r.reg]
    BY <1>2 DEF Step, Result
  <2>2. QED
    BY <1>2, <2>1 DEF Result
<1>3. QED
  BY <1>1, <1>2

\* A family that claims nothing twice, and of the registry's names only those
\* that it replaces.
Compatible(reg, ts) ==
    /\ \A t \in Range(ts) : t.fit /\ Claimed(t) \cap DOMAIN reg \subseteq t.replaces
    /\ \A i, j \in DOMAIN ts : i # j => Claimed(ts[i]) \cap Claimed(ts[j]) = {}

\* After n targets of a family.
AfterTargets(r, n, reg, ts) ==
    /\ Result(r)
    /\ \A t : Resolves(reg, t) => Resolves(r.reg, t)
    /\ DOMAIN reg \subseteq DOMAIN r.reg
    /\ \A x \in DOMAIN r.reg \ DOMAIN reg : \E i \in 1 .. n : x \in Claimed(ts[i])
    /\ \A v \in Values(r.reg) \ Values(reg) : \E i \in 1 .. n : v = ts[i]
    /\ r.ok => \A i \in 1 .. n : Resolves(r.reg, ts[i])
    /\ Compatible(reg, ts) => r.ok

\* The next target keeps that.
LEMMA NextTarget ==
  ASSUME NEW reg, NEW ts, DOMAIN ts = 1 .. Len(ts), Len(ts) \in Nat,
         NEW n \in Nat, n < Len(ts), NEW r, AfterTargets(r, n, reg, ts)
  PROVE  AfterTargets(Step(r, ts[n + 1]), n + 1, reg, ts)
<1> DEFINE t == ts[n + 1]
           s == Step(r, t)
<1>1. /\ Result(s) /\ (s.ok <=> r.ok /\ Registrable(r.reg, t))
      /\ s.reg = IF s.ok THEN Put(r.reg, t) ELSE r.reg
  BY StepIs DEF AfterTargets
<1>2. n + 1 \in DOMAIN ts /\ \A i \in 1 .. n : i \in DOMAIN ts /\ i \in 1 .. n + 1 /\ i # n + 1
  OBVIOUS
<1>3. \A i : i \in 1 .. n + 1 <=> i \in 1 .. n \/ i = n + 1
  OBVIOUS
<1>0. SUFFICES AfterTargets(s, n + 1, reg, ts)
  OBVIOUS
<1> HIDE DEF s
<1>4. CASE s.ok
  <2>1. ~Collides(r.reg, t) /\ s.reg = Put(r.reg, t)
    BY <1>1, <1>4 DEF Registrable
  <2>2. /\ DOMAIN s.reg = DOMAIN r.reg \cup Claimed(t)
        /\ Resolves(s.reg, t)
        /\ \A u : Resolves(r.reg, u) => Resolves(s.reg, u)
        /\ Values(s.reg) \subseteq Values(r.reg) \cup {t}
    <3> HIDE DEF t
    <3>1. PICK q : q = r.reg
      OBVIOUS
    <3>2. ~Collides(q, t)
      BY <2>1, <3>1
    <3>3. /\ DOMAIN Put(q, t) = DOMAIN q \cup Claimed(t)
          /\ Resolves(Put(q, t), t)
          /\ \A u : Resolves(q, u) => Resolves(Put(q, t), u)
          /\ Values(Put(q, t)) \subseteq Values(q) \cup {t}
      BY <3>2, PutKeeps
    <3>4. s.reg = Put(q, t)
      BY <2>1, <3>1
    <3>5. QED
      BY <3>1, <3>3, <3>4
  <2> HIDE DEF t
  <2>3. \A x \in DOMAIN s.reg \ DOMAIN reg : \E i \in 1 .. n + 1 : x \in Claimed(ts[i])
    BY <2>2, <1>3 DEF AfterTargets, t
  <2>4. \A v \in Values(s.reg) \ Values(reg) : \E i \in 1 .. n + 1 : v = ts[i]
    BY <2>2, <1>3 DEF AfterTargets, t
  <2>5. \A i \in 1 .. n + 1 : Resolves(s.reg, ts[i])
    BY <2>2, <1>1, <1>3, <1>4 DEF AfterTargets, t
  <2>6. QED
    BY <1>1, <1>4, <2>2, <2>3, <2>4, <2>5 DEF AfterTargets
<1>5. CASE ~s.ok
  <2>1. s.reg = r.reg
    BY <1>1, <1>5
  <2>2. ~Compatible(reg, ts)
    <3> SUFFICES ASSUME Compatible(reg, ts) PROVE FALSE
      OBVIOUS
    <3>1. ~Registrable(r.reg, t)
      BY <1>1, <1>5 DEF AfterTargets
    <3>2. t \in Range(ts)
      BY <1>2 DEF Range
    <3>3. t.fit
      BY <3>2 DEF Compatible
    <3>4. PICK x \in Claimed(t) : x \in DOMAIN r.reg /\ x \notin t.replaces
      BY <3>1, <3>3 DEF Registrable, Collides
    <3>5. x \notin DOMAIN reg
      BY <3>2, <3>4 DEF Compatible
    <3>6. PICK i \in 1 .. n : x \in Claimed(ts[i])
      BY <3>4, <3>5 DEF AfterTargets
    <3>7. QED
      BY <3>4, <3>6, <1>2 DEF Compatible
  <2>3. QED
    BY <1>1, <1>3, <1>5, <2>1, <2>2 DEF AfterTargets
<1>6. QED
  BY <1>4, <1>5

\* After a whole family.
LEMMA FamilyIs ==
  ASSUME NEW reg, NEW ts, DOMAIN ts = 1 .. Len(ts), Len(ts) \in Nat
  PROVE  AfterTargets(RegisterFamily(reg, ts), Len(ts), reg, ts)
<1>1. PICK f : FamilySteps(f, reg, ts) /\ RegisterFamily(reg, ts) = f[Len(ts)]
  BY FamilyHasSteps
<1> DEFINE X == {n \in Nat : n <= Len(ts) => AfterTargets(f[n], n, reg, ts)}
<1>2. 0 \in X
  <2>1. f[0] = [ok |-> TRUE, reg |-> reg]
    BY <1>1 DEF FamilySteps
  <2>2. AfterTargets(f[0], 0, reg, ts)
    BY <2>1 DEF AfterTargets, Result
  <2>3. QED
    BY <2>2
<1>3. ASSUME NEW n \in Nat, n < Len(ts), n \in X PROVE n + 1 \in X
  <2>1. AfterTargets(f[n], n, reg, ts)
    BY <1>3
  <2>2. f[n + 1] = Step(f[n], ts[n + 1])
    <3>1. n + 1 \in 1 .. Len(ts) /\ (n + 1) - 1 = n
      BY <1>3
    <3>2. QED
      BY <1>1, <3>1 DEF FamilySteps
  <2>3. AfterTargets(f[n + 1], n + 1, reg, ts)
    BY <1>3, <2>1, <2>2, NextTarget
  <2>4. QED
    BY <2>3
<1>4. Len(ts) \in X
  <2> HIDE DEF X
  <2>1. \A n \in 0 .. Len(ts) : n \in X
    BY <1>2, <1>3, UpTo
  <2>2. QED
    BY <2>1
<1>5. QED
  BY <1>1, <1>4

-----------------------------------------------------------------------------
(* discover() *)

\* A sequence of entry points, each of a sequence of targets.
EntryPoint(ep) == ep.targets \in Seq(Range(ep.targets))
EntryPoints(eps) == /\ Len(eps) \in Nat /\ DOMAIN eps = 1 .. Len(eps)
                    /\ \A j \in 1 .. Len(eps) : EntryPoint(eps[j])

\* What an environment advertises is one, without repeated targets.
LEMMA FoundIs ==
  ASSUME NEW i \in DOMAIN Installations, NEW wanted
  PROVE  LET eps == Found(wanted, i)
         IN  /\ EntryPoints(eps)
             /\ \A j \in 1 .. Len(eps) : Range(eps[j].targets) \subseteq Offered(i)
             /\ \A j, m \in 1 .. Len(eps) : j # m => Range(eps[j].targets) \cap Range(eps[m].targets) = {}
<1> DEFINE all == Installations[i].eps
<1>1. CASE wanted
  <2>1. /\ all \in Seq(Range(all))
        /\ \A ep \in Range(all) : ep.targets \in Seq(Range(ep.targets))
        /\ \A m, n \in DOMAIN all : m # n => Range(all[m].targets) \cap Range(all[n].targets) = {}
    BY InstallationsAssumption
  <2>2. Found(wanted, i) = all
    BY <1>1 DEF Found
  <2>3. Offered(i) = UNION {Range(ep.targets) : ep \in Range(all)}
    BY DEF Offered
  <2> HIDE DEF all
  <2>4. Len(all) \in Nat /\ DOMAIN all = 1 .. Len(all)
    BY <2>1
  <2>5. \A j \in 1 .. Len(all) : all[j] \in Range(all)
    BY <2>4 DEF Range
  <2>6. \A ep \in Range(all) : EntryPoint(ep)
    BY <2>1 DEF EntryPoint
  <2>7. \A j \in 1 .. Len(all) : Range(all[j].targets) \subseteq Offered(i)
    BY <2>3, <2>5
  <2>8. QED
    BY <2>1, <2>2, <2>4, <2>5, <2>6, <2>7 DEF EntryPoints
<1>2. CASE ~wanted
  <2>1. Found(wanted, i) = <<>>
    BY <1>2 DEF Found
  <2>2. QED
    BY <2>1 DEF EntryPoints
<1>3. QED
  BY <1>1, <1>2

\* An entry point leaves all its targets or none.
LEMMA LoadOneIs ==
  ASSUME NEW reg, NEW ep, EntryPoint(ep)
  PROVE  LET l == LoadOne(reg, ep)
         IN  /\ l.ok \in BOOLEAN
             /\ \A t : Resolves(reg, t) => Resolves(l.reg, t)
             /\ DOMAIN reg \subseteq DOMAIN l.reg
             /\ \A x \in DOMAIN l.reg \ DOMAIN reg : \E t \in Range(ep.targets) : x \in Claimed(t)
             /\ \A v \in Values(l.reg) \ Values(reg) : v \in Range(ep.targets)
             /\ l.ok => Range(ep.targets) # {} /\ \A t \in Range(ep.targets) : Resolves(l.reg, t)
             /\ ~l.ok => l.reg = reg
             /\ Loads(ep) /\ Compatible(reg, ep.targets) => l.ok
<1> DEFINE ts == ep.targets
           r == RegisterFamily(reg, ts)
           l == LoadOne(reg, ep)
<1>1. l = IF Loads(ep) /\ r.ok THEN r ELSE [ok |-> FALSE, reg |-> reg]
  BY DEF LoadOne
<1>2. ts \in Seq(Range(ts)) /\ Len(ts) \in Nat /\ DOMAIN ts = 1 .. Len(ts)
  BY DEF EntryPoint
<1>3. AfterTargets(r, Len(ts), reg, ts)
  BY <1>2, FamilyIs
<1>4. \A t : t \in Range(ts) <=> \E n \in 1 .. Len(ts) : t = ts[n]
  BY <1>2 DEF Range
<1>5. Loads(ep) => ts # <<>>
  BY DEF Loads
<1> HIDE DEF l, r
<1>6. CASE Loads(ep) /\ r.ok
  <2>1. l = r
    BY <1>1, <1>6
  <2>2. Range(ts) # {}
    <3>1. Len(ts) # 0
      <4> SUFFICES ASSUME Len(ts) = 0 PROVE ts = <<>>
        BY <1>5, <1>6
      <4> HIDE DEF ts
      <4>1. QED
        BY <1>2
    <3>2. 1 \in 1 .. Len(ts)
      BY <1>2, <3>1
    <3>3. ts[1] \in Range(ts)
      BY <1>4, <3>2
    <3>4. QED
      BY <3>3
  <2>3. QED
    BY <1>3, <1>4, <1>6, <2>1, <2>2 DEF AfterTargets, Result, l
<1>7. CASE ~(Loads(ep) /\ r.ok)
  <2>1. l.ok = FALSE /\ l.reg = reg
    BY <1>1, <1>7
  <2>2. QED
    BY <1>3, <1>7, <2>1 DEF AfterTargets, l
<1>8. QED
  BY <1>6, <1>7

\* After n entry points of a scan: whatever resolved still does, what is new
\* comes from the entry points, and each of them that has not failed resolves.
AfterEntryPoints(s, n, reg, eps) ==
    /\ s = [reg |-> s.reg, errors |-> s.errors]
    /\ \A t : Resolves(reg, t) => Resolves(s.reg, t)
    /\ DOMAIN reg \subseteq DOMAIN s.reg
    /\ \A x \in DOMAIN s.reg \ DOMAIN reg :
          \E j \in 1 .. n : \E t \in Range(eps[j].targets) : x \in Claimed(t)
    /\ \A v \in Values(s.reg) \ Values(reg) : \E j \in 1 .. n : v \in Range(eps[j].targets)
    /\ \A e \in s.errors : \E j \in 1 .. n : e = eps[j]
    /\ \A j \in 1 .. n : eps[j] \notin s.errors => /\ Range(eps[j].targets) # {}
                                                   /\ \A t \in Range(eps[j].targets) : Resolves(s.reg, t)

\* The next entry point keeps that.
LEMMA NextEntryPoint ==
  ASSUME NEW reg, NEW eps, EntryPoints(eps), NEW n \in Nat, n < Len(eps),
         NEW s, AfterEntryPoints(s, n, reg, eps)
  PROVE  AfterEntryPoints(LoadNext(s, eps[n + 1]), n + 1, reg, eps)
<1>1. PICK old : old = s.reg
  OBVIOUS
<1>2. PICK ep : ep = eps[n + 1]
  OBVIOUS
<1>3. PICK l : l = LoadOne(old, ep)
  OBVIOUS
<1>4. EntryPoint(ep)
  <2>1. n + 1 \in 1 .. Len(eps)
    BY DEF EntryPoints
  <2>2. QED
    BY <1>2, <2>1 DEF EntryPoints
<1>5. /\ l.ok \in BOOLEAN
      /\ \A t : Resolves(old, t) => Resolves(l.reg, t)
      /\ DOMAIN old \subseteq DOMAIN l.reg
      /\ \A x \in DOMAIN l.reg \ DOMAIN old : \E t \in Range(ep.targets) : x \in Claimed(t)
      /\ \A v \in Values(l.reg) \ Values(old) : v \in Range(ep.targets)
      /\ l.ok => Range(ep.targets) # {} /\ \A t \in Range(ep.targets) : Resolves(l.reg, t)
      /\ ~l.ok => l.reg = old
  BY <1>3, <1>4, LoadOneIs
<1>6. PICK new : new = LoadNext(s, ep)
  OBVIOUS
<1>7. new = [reg |-> l.reg, errors |-> IF l.ok THEN s.errors ELSE s.errors \cup {ep}]
  BY <1>1, <1>3, <1>6 DEF LoadNext
<1>8. new.reg = l.reg /\ new.errors = IF l.ok THEN s.errors ELSE s.errors \cup {ep}
  BY <1>7
<1>9. \A j : j \in 1 .. n + 1 <=> j \in 1 .. n \/ j = n + 1
  OBVIOUS
<1>10. \A t : Resolves(reg, t) => Resolves(new.reg, t)
  BY <1>1, <1>5, <1>8 DEF AfterEntryPoints
<1>11. DOMAIN reg \subseteq DOMAIN new.reg
  BY <1>1, <1>5, <1>8 DEF AfterEntryPoints
<1>12. \A x \in DOMAIN new.reg \ DOMAIN reg :
         \E j \in 1 .. n + 1 : \E t \in Range(eps[j].targets) : x \in Claimed(t)
  BY <1>1, <1>2, <1>5, <1>8, <1>9 DEF AfterEntryPoints
<1>13. \A v \in Values(new.reg) \ Values(reg) : \E j \in 1 .. n + 1 : v \in Range(eps[j].targets)
  BY <1>1, <1>2, <1>5, <1>8, <1>9 DEF AfterEntryPoints
<1>14. \A e \in new.errors : \E j \in 1 .. n + 1 : e = eps[j]
  BY <1>2, <1>8, <1>9 DEF AfterEntryPoints
<1>15. ASSUME NEW j \in 1 .. n + 1, eps[j] \notin new.errors
       PROVE  /\ Range(eps[j].targets) # {}
              /\ \A t \in Range(eps[j].targets) : Resolves(new.reg, t)
  <2>1. CASE j \in 1 .. n
    <3>1. eps[j] \notin s.errors
      BY <1>8, <1>15
    <3>2. QED
      BY <1>1, <1>5, <1>8, <2>1, <3>1 DEF AfterEntryPoints
  <2>2. CASE j = n + 1
    BY <1>2, <1>5, <1>8, <1>15, <2>2
  <2>3. QED
    BY <1>9, <2>1, <2>2
<1>16. new = [reg |-> new.reg, errors |-> new.errors]
  BY <1>7
<1>17. AfterEntryPoints(new, n + 1, reg, eps)
  BY <1>10, <1>11, <1>12, <1>13, <1>14, <1>15, <1>16 DEF AfterEntryPoints
<1>18. QED
  BY <1>2, <1>6, <1>17

\* A registry in which nothing was discovered yet.
Pristine(reg) == /\ \A x \in DOMAIN reg : \E b \in Range(Builtins) : x \in Claimed(b)
                 /\ Values(reg) \subseteq Range(Builtins)

\* The targets of an entry point are its own.
OwnTargets(eps) ==
    /\ \A j, m \in DOMAIN eps : j # m => Range(eps[j].targets) \cap Range(eps[m].targets) = {}
    /\ \A j \in DOMAIN eps : Range(eps[j].targets) \cap Range(Builtins) = {}

\* After n entry points of a first scan: those that failed left nothing, and
\* those that are healthy and apart from all others did not fail.
AfterFirst(s, n, eps) ==
    /\ \A j \in 1 .. n : eps[j] \in s.errors => Range(eps[j].targets) \cap Values(s.reg) = {}
    /\ \A j \in 1 .. n :
          Healthy(eps[j]) /\ (\A m \in DOMAIN eps \ {j} : Apart(eps[j], eps[m])) => eps[j] \notin s.errors

\* A healthy entry point is not apart from itself: it claims a name.
LEMMA HealthyClaims ==
  ASSUME NEW ep, EntryPoint(ep), Healthy(ep)
  PROVE  ~Apart(ep, ep)
<1>1. PICK ts : ts = ep.targets
  OBVIOUS
<1>2. ts \in Seq(Range(ts)) /\ ts # <<>>
  BY <1>1 DEF EntryPoint, Healthy, Loads
<1>3. 1 \in DOMAIN ts /\ ts[1] \in Range(ts)
  BY <1>2 DEF Range
<1>4. ts[1].name \in Claimed(ts[1])
  BY DEF Claimed
<1>5. QED
  BY <1>1, <1>3, <1>4 DEF Apart

\* The next entry point of a first scan keeps that.
LEMMA NextFirst ==
  ASSUME NEW reg, Pristine(reg), NEW eps, EntryPoints(eps), OwnTargets(eps),
         NEW n \in Nat, n < Len(eps),
         NEW s, AfterEntryPoints(s, n, reg, eps), AfterFirst(s, n, eps)
  PROVE  AfterFirst(LoadNext(s, eps[n + 1]), n + 1, eps)
<1>1. PICK old : old = s.reg
  OBVIOUS
<1>2. PICK ep : ep = eps[n + 1]
  OBVIOUS
<1>3. PICK l : l = LoadOne(old, ep)
  OBVIOUS
<1>4. n + 1 \in DOMAIN eps /\ EntryPoint(ep)
  <2>1. n + 1 \in 1 .. Len(eps)
    BY DEF EntryPoints
  <2>2. QED
    BY <1>2, <2>1 DEF EntryPoints
<1>5. /\ l.ok \in BOOLEAN
      /\ \A v \in Values(l.reg) \ Values(old) : v \in Range(ep.targets)
      /\ l.ok => Range(ep.targets) # {}
      /\ ~l.ok => l.reg = old
      /\ Loads(ep) /\ Compatible(old, ep.targets) => l.ok
  BY <1>3, <1>4, LoadOneIs
<1>6. PICK new : new = LoadNext(s, ep)
  OBVIOUS
<1>7. new = [reg |-> l.reg, errors |-> IF l.ok THEN s.errors ELSE s.errors \cup {ep}]
  BY <1>1, <1>3, <1>6 DEF LoadNext
<1>8. new.reg = l.reg /\ new.errors = IF l.ok THEN s.errors ELSE s.errors \cup {ep}
  BY <1>7
<1>9. \A j \in 1 .. n : j \in DOMAIN eps /\ j # n + 1
  BY DEF EntryPoints
<1>10. \A j : j \in 1 .. n + 1 <=> j \in 1 .. n \/ j = n + 1
  OBVIOUS
<1>11. ASSUME NEW j \in 1 .. n PROVE Range(eps[j].targets) \cap Range(ep.targets) = {}
  BY <1>2, <1>4, <1>9 DEF OwnTargets
<1>12. Range(ep.targets) \cap Values(old) = {}
  <2>1. \A v \in Values(old) : v \in Range(Builtins) \/ \E j \in 1 .. n : v \in Range(eps[j].targets)
    BY <1>1 DEF AfterEntryPoints, Pristine
  <2>2. Range(ep.targets) \cap Range(Builtins) = {}
    BY <1>2, <1>4 DEF OwnTargets
  <2>3. QED
    BY <1>11, <2>1, <2>2
<1>13. ASSUME NEW j \in 1 .. n + 1, eps[j] \in new.errors
       PROVE  Range(eps[j].targets) \cap Values(new.reg) = {}
  <2>1. CASE l.ok
    <3>1. PICK m \in 1 .. n : eps[j] = eps[m]
      BY <1>8, <1>13, <2>1 DEF AfterEntryPoints
    <3>2. Range(eps[m].targets) \cap Values(old) = {}
      BY <1>1, <1>8, <1>13, <2>1, <3>1 DEF AfterFirst
    <3>3. QED
      BY <1>5, <1>8, <1>11, <3>1, <3>2
  <2>2. CASE ~l.ok /\ j = n + 1
    BY <1>2, <1>5, <1>8, <1>12, <2>2
  <2>3. CASE ~l.ok /\ j \in 1 .. n
    <3>1. CASE eps[j] \in s.errors
      BY <1>1, <1>5, <1>8, <2>3, <3>1 DEF AfterFirst
    <3>2. CASE eps[j] = ep
      BY <1>5, <1>8, <1>12, <2>3, <3>2
    <3>3. QED
      BY <1>8, <1>13, <2>3, <3>1, <3>2
  <2>4. QED
    BY <1>5, <1>10, <2>1, <2>2, <2>3
<1>14. ASSUME NEW j \in 1 .. n + 1,
              Healthy(eps[j]), \A m \in DOMAIN eps \ {j} : Apart(eps[j], eps[m])
       PROVE  eps[j] \notin new.errors
  <2>1. j \in DOMAIN eps /\ EntryPoint(eps[j])
    <3>1. j \in 1 .. Len(eps)
      BY DEF EntryPoints
    <3>2. QED
      BY <3>1 DEF EntryPoints
  <2>2. \A m \in DOMAIN eps : m # j => eps[m] # eps[j]
    BY <1>14, <2>1, HealthyClaims
  <2>3. CASE j \in 1 .. n
    <3>1. eps[j] \notin s.errors
      BY <1>14, <2>3 DEF AfterFirst
    <3>2. QED
      BY <1>2, <1>4, <1>8, <1>9, <2>2, <2>3, <3>1
  <2>4. CASE j = n + 1
    <3>1. ep \notin s.errors
      BY <1>2, <1>9, <2>2, <2>4 DEF AfterEntryPoints
    <3>2. Compatible(old, ep.targets)
      <4>1. ASSUME NEW t \in Range(ep.targets), NEW x \in Claimed(t), x \in DOMAIN old
            PROVE  x \in t.replaces
        <5>1. CASE x \in DOMAIN reg
          <6>1. PICK b \in Range(Builtins) : x \in Claimed(b)
            BY <5>1 DEF Pristine
          <6>2. Claimed(t) \cap Claimed(b) \subseteq t.replaces
            BY <1>2, <1>14, <2>4 DEF Healthy
          <6>3. QED
            BY <6>1, <6>2
        <5>2. CASE x \notin DOMAIN reg
          <6>1. PICK m \in 1 .. n : \E u \in Range(eps[m].targets) : x \in Claimed(u)
            BY <1>1, <4>1, <5>2 DEF AfterEntryPoints
          <6>2. Apart(ep, eps[m])
            BY <1>2, <1>9, <1>14, <2>4
          <6>3. QED
            BY <6>1, <6>2 DEF Apart
        <5>3. QED
          BY <5>1, <5>2
      <4>2. QED
        BY <1>2, <1>14, <2>4, <4>1 DEF Compatible, Healthy
    <3>3. l.ok
      BY <1>2, <1>5, <1>14, <2>4, <3>2 DEF Healthy
    <3>4. QED
      BY <1>2, <1>8, <2>4, <3>1, <3>3
  <2>5. QED
    BY <1>10, <2>3, <2>4
<1>15. AfterFirst(new, n + 1, eps)
  BY <1>13, <1>14 DEF AfterFirst
<1>16. QED
  BY <1>2, <1>6, <1>15

\* After a whole scan.
LEMMA ScanIs ==
  ASSUME NEW reg, NEW eps, EntryPoints(eps)
  PROVE  /\ AfterEntryPoints(Scan(reg, eps), Len(eps), reg, eps)
         /\ Pristine(reg) /\ OwnTargets(eps) => AfterFirst(Scan(reg, eps), Len(eps), eps)
<1>0. Len(eps) \in Nat
  BY DEF EntryPoints
<1>1. PICK g : ScanSteps(g, reg, eps) /\ Scan(reg, eps) = g[Len(eps)]
  BY <1>0, ScanHasSteps
<1> DEFINE first == Pristine(reg) /\ OwnTargets(eps)
           LoadedTo(n) == AfterEntryPoints(g[n], n, reg, eps) /\ (first => AfterFirst(g[n], n, eps))
           X == {n \in Nat : n <= Len(eps) => LoadedTo(n)}
<1>2. 0 \in X
  <2>1. g[0] = [reg |-> reg, errors |-> {}]
    BY <1>1 DEF ScanSteps
  <2>2. AfterEntryPoints(g[0], 0, reg, eps) /\ AfterFirst(g[0], 0, eps)
    BY <2>1 DEF AfterEntryPoints, AfterFirst
  <2>3. QED
    BY <2>2
<1>3. ASSUME NEW n \in Nat, n < Len(eps), n \in X PROVE n + 1 \in X
  <2>1. LoadedTo(n)
    BY <1>0, <1>3
  <2>2. g[n + 1] = LoadNext(g[n], eps[n + 1])
    <3>1. n + 1 \in 1 .. Len(eps) /\ (n + 1) - 1 = n
      BY <1>0, <1>3
    <3>2. QED
      BY <1>1, <3>1 DEF ScanSteps
  <2>3. AfterEntryPoints(g[n + 1], n + 1, reg, eps)
    BY <1>3, <2>1, <2>2, NextEntryPoint
  <2>4. first => AfterFirst(g[n + 1], n + 1, eps)
    BY <1>3, <2>1, <2>2, NextFirst
  <2>5. QED
    BY <2>3, <2>4
<1>4. Len(eps) \in X
  <2> HIDE DEF X
  <2>1. \A n \in 0 .. Len(eps) : n \in X
    BY <1>0, <1>2, <1>3, UpTo
  <2>2. QED
    BY <1>0, <2>1
<1>5. QED
  BY <1>0, <1>1, <1>4

\* The built-in targets are compatible, so that all of them resolve.
LEMMA BuiltinsResolve ==
  /\ Pristine(BuiltinRegistry)
  /\ \A b \in Range(Builtins) : Resolves(BuiltinRegistry, b)
<1>1. /\ Builtins \in Seq(Range(Builtins))
      /\ \A t \in Range(Builtins) : t.fit
      /\ \A i, j \in DOMAIN Builtins : i # j => Claimed(Builtins[i]) \cap Claimed(Builtins[j]) = {}
  BY BuiltinsAssumption
<1>2. DOMAIN Builtins = 1 .. Len(Builtins) /\ Len(Builtins) \in Nat
  BY <1>1
<1>3. PICK r : r = RegisterFamily(<<>>, Builtins)
  OBVIOUS
<1>4. AfterTargets(r, Len(Builtins), <<>>, Builtins)
  BY <1>2, <1>3, FamilyIs
<1>5. BuiltinRegistry = r.reg
  BY <1>3 DEF BuiltinRegistry
<1>6. DOMAIN <<>> = {} /\ Values(<<>>) = {}
  BY DEF Values
<1>7. Compatible(<<>>, Builtins)
  BY <1>1, <1>6 DEF Compatible
<1>8. \A t : t \in Range(Builtins) <=> \E i \in 1 .. Len(Builtins) : t = Builtins[i]
  BY <1>2 DEF Range
<1>9. Pristine(r.reg)
  BY <1>4, <1>6, <1>8 DEF AfterTargets, Pristine
<1>10. \A b \in Range(Builtins) : Resolves(r.reg, b)
  BY <1>4, <1>7, <1>8 DEF AfterTargets
<1>11. QED
  BY <1>5, <1>9, <1>10

\* What any scan of an environment leaves in a process.
LEMMA ScanKeeps ==
  ASSUME NEW i \in DOMAIN Installations, NEW wanted, NEW reg
  PROVE  LET s == Scan(reg, Found(wanted, i))
         IN  /\ \A t : Resolves(reg, t) => Resolves(s.reg, t)
             /\ DOMAIN reg \subseteq DOMAIN s.reg
             /\ Values(s.reg) \subseteq Values(reg) \cup Offered(i)
<1>1. PICK eps : eps = Found(wanted, i)
  OBVIOUS
<1>2. EntryPoints(eps) /\ \A j \in 1 .. Len(eps) : Range(eps[j].targets) \subseteq Offered(i)
  BY <1>1, FoundIs
<1>3. PICK s : s = Scan(reg, eps)
  OBVIOUS
<1>4. AfterEntryPoints(s, Len(eps), reg, eps)
  BY <1>2, <1>3, ScanIs
<1>5. /\ \A t : Resolves(reg, t) => Resolves(s.reg, t)
      /\ DOMAIN reg \subseteq DOMAIN s.reg
      /\ Values(s.reg) \subseteq Values(reg) \cup Offered(i)
  BY <1>2, <1>4 DEF AfterEntryPoints
<1>6. QED
  BY <1>1, <1>3, <1>5

\* What the first scan of a process leaves: all or none of each entry point,
\* and all of a healthy one.
LEMMA FirstScanIs ==
  ASSUME NEW i \in DOMAIN Installations, NEW wanted
  PROVE  LET eps == Found(wanted, i)
             s   == Scan(BuiltinRegistry, eps)
         IN  /\ \A ep \in Range(eps) :
                  IF ep \in s.errors THEN Range(ep.targets) \cap Values(s.reg) = {}
                  ELSE \A t \in Range(ep.targets) : Resolves(s.reg, t)
             /\ \A j \in DOMAIN eps :
                  Healthy(eps[j]) /\ (\A m \in DOMAIN eps \ {j} : Apart(eps[j], eps[m]))
                    => eps[j] \notin s.errors
<1>1. PICK eps : eps = Found(wanted, i)
  OBVIOUS
<1>2. /\ EntryPoints(eps)
      /\ \A j \in 1 .. Len(eps) : Range(eps[j].targets) \subseteq Offered(i)
      /\ \A j, m \in 1 .. Len(eps) : j # m => Range(eps[j].targets) \cap Range(eps[m].targets) = {}
  BY <1>1, FoundIs
<1>3. DOMAIN eps = 1 .. Len(eps)
  BY <1>2 DEF EntryPoints
<1>4. OwnTargets(eps)
  <2>1. ASSUME NEW j \in DOMAIN eps PROVE Range(eps[j].targets) \cap Range(Builtins) = {}
    <3>1. \A t \in Range(eps[j].targets) : t.dist # "pssc"
      BY <1>2, <1>3, InstallationsAssumption
    <3>2. \A t \in Range(Builtins) : t.dist = "pssc"
      BY BuiltinsAssumption
    <3>3. QED
      BY <3>1, <3>2
  <2>2. QED
    BY <1>2, <1>3, <2>1 DEF OwnTargets
<1>5. PICK s : s = Scan(BuiltinRegistry, eps)
  OBVIOUS
<1>6. AfterEntryPoints(s, Len(eps), BuiltinRegistry, eps) /\ AfterFirst(s, Len(eps), eps)
  BY <1>2, <1>4, <1>5, ScanIs, BuiltinsResolve
<1>7. \A ep \in Range(eps) : \E j \in 1 .. Len(eps) : ep = eps[j]
  BY <1>3 DEF Range
<1>8. /\ \A ep \in Range(eps) :
           IF ep \in s.errors THEN Range(ep.targets) \cap Values(s.reg) = {}
           ELSE \A t \in Range(ep.targets) : Resolves(s.reg, t)
      /\ \A j \in DOMAIN eps :
           Healthy(eps[j]) /\ (\A m \in DOMAIN eps \ {j} : Apart(eps[j], eps[m]))
             => eps[j] \notin s.errors
  BY <1>3, <1>6, <1>7 DEF AfterEntryPoints, AfterFirst
<1>9. QED
  BY <1>1, <1>5, <1>8

-----------------------------------------------------------------------------
(* The build task *)

\* The registry of a process: built from the built-ins by at most two scans.
Process == /\ installed \in DOMAIN Installations /\ plugins \in Plugins /\ discovered \in BOOLEAN
           /\ scans \in 0 .. 2 /\ (discovered <=> scans # 0)
           /\ scans = 0 => registry = BuiltinRegistry
           /\ DOMAIN BuiltinRegistry \subseteq DOMAIN registry
           /\ \A b \in Range(Builtins) : Resolves(registry, b)
           /\ AllOrNone
           /\ HealthyLoads

\* What a run may hash.
World == [src : Good \cup Bad, opt : Option, target : Targets, installed : DOMAIN Installations,
          plugins : Plugins]

\* Nobody can tell which version of the target there is.
Unnamed(w) == \/ w.target \notin DOMAIN Resolved(w)
              \/ /\ Resolved(w)[w.target].dist = "nometa"
                 /\ Resolved(w)[w.target].name \notin BuiltinNames

\* What is hashed for the target otherwise.
Known(w) == LET t == Resolved(w)[w.target]
            IN  IF t.name \in BuiltinNames THEN <<"pssc", PsscIn(w.installed)>>
                                           ELSE <<t.dist, t.version>>

\* A hash that run n made, if nothing was installed after its start, is a
\* function of the world, or of the run if the target is unnamed.
Certified(a, n) ==
    /\ a.world \in World /\ a.upToDate \in BOOLEAN
    /\ a.upToDate => a.hash = <<a.world.src, a.world.opt, a.world.target,
                                IF Unnamed(a.world) THEN <<"unknown", n>> ELSE Known(a.world)>>

Generated(out) == out[1].src \in Good /\ out[1].opt \in Option

\* Where run_build is, and the memento of an earlier run.
Task == /\ imported \in {PsscIn(i) : i \in DOMAIN Installations}
        /\ src \in Good \cup Bad /\ pc \in PC
        /\ changed \in BOOLEAN /\ tainted \in BOOLEAN
        /\ changes \in 0 .. MaxChanges /\ runs \in 1 .. MaxRuns
        /\ pc # "idle" => Certified(asof, runs)
        /\ pc = "read" => Generated(read) /\ Len(read) = 1
        /\ pc = "wrote" => dir \in {read, <<>>}
        /\ dir # <<>> => Generated(dir)
        /\ result = "reused" => pc = "done"
        /\ memento # <<>> => \E n \in 1 .. runs : /\ n = runs => pc = "done"
                                                 /\ Certified(memento[1], n)

\* An output that its memento describes is what a compile of the memento's
\* world would produce.
Stored == memento # <<>> /\ ~tainted /\ dir # <<>> =>
            LET m == memento[1]
            IN  m.upToDate /\ Compiles(m.world) /\ dir = <<Product(m.world)>>

IInv == Process /\ Task /\ Stored

-----------------------------------------------------------------------------
(* The registry *)

\* A scan, or none, keeps what the registry owes.
LEMMA DiscoverKeeps ==
  ASSUME Process, NEW force \in BOOLEAN, Discover(force), force => scans < 2, installed' = installed
  PROVE  Process'
<1>1. CASE UNCHANGED processVars
  BY <1>1 DEF Process, processVars, AllOrNone, HealthyLoads
<1>2. CASE ~(discovered /\ ~force)
  <2>1. PICK eps : eps = Found(plugins, installed)
    OBVIOUS
  <2>2. PICK s : s = Scan(registry, eps)
    OBVIOUS
  <2>3. /\ registry' = s.reg /\ errors' = s.errors /\ discovered' = TRUE
        /\ scanned' = eps /\ scans' = scans + 1 /\ plugins' = plugins
    BY <1>2, <2>1, <2>2 DEF Discover
  <2>4. scans \in 0 .. 1
    BY <1>2 DEF Process
  <2>5. /\ \A t : Resolves(registry, t) => Resolves(s.reg, t)
        /\ DOMAIN registry \subseteq DOMAIN s.reg
    BY <2>1, <2>2, ScanKeeps DEF Process
  <2>6. \A b \in Range(Builtins) : Resolves(registry', b)
    BY <2>3, <2>5 DEF Process
  <2>7. ASSUME scans' = 1
        PROVE  /\ \A ep \in Range(eps) :
                    IF ep \in s.errors THEN Range(ep.targets) \cap Values(s.reg) = {}
                    ELSE \A t \in Range(ep.targets) : Resolves(s.reg, t)
               /\ \A j \in DOMAIN eps :
                    Healthy(eps[j]) /\ (\A m \in DOMAIN eps \ {j} : Apart(eps[j], eps[m]))
                      => eps[j] \notin s.errors
    <3>1. registry = BuiltinRegistry
      BY <2>3, <2>4, <2>7 DEF Process
    <3>2. QED
      BY <2>1, <2>2, <3>1, FirstScanIs DEF Process
  <2>8. AllOrNone'
    BY <2>3, <2>7 DEF AllOrNone, Resolves, Values
  <2>9. HealthyLoads'
    BY <2>3, <2>7 DEF HealthyLoads
  <2>10. QED
    BY <2>3, <2>4, <2>5, <2>6, <2>8, <2>9 DEF Process
<1>3. QED
  BY <1>1, <1>2 DEF Discover

\* A new process has the built-ins.
LEMMA InitProcess == RegistryInit => Process
<1> SUFFICES ASSUME RegistryInit PROVE Process
  OBVIOUS
<1>1. AllOrNone /\ HealthyLoads
  BY DEF RegistryInit, AllOrNone, HealthyLoads
<1>2. DOMAIN BuiltinRegistry \subseteq DOMAIN registry /\ \A b \in Range(Builtins) : Resolves(registry, b)
  BY BuiltinsResolve DEF RegistryInit
<1>3. /\ installed \in DOMAIN Installations /\ plugins \in Plugins
      /\ scans = 0 /\ registry = BuiltinRegistry
  BY DEF RegistryInit
<1>4. discovered \in BOOLEAN /\ (discovered <=> scans # 0)
  BY DEF RegistryInit
<1>5. QED
  BY <1>1, <1>2, <1>3, <1>4 DEF Process

\* So has that of a later run.
LEMMA FreshProcess ==
  ASSUME Process, Fresh, installed' = installed
  PROVE  Process'
<1>1. AllOrNone' /\ HealthyLoads'
  BY DEF Fresh, AllOrNone, HealthyLoads
<1>2. /\ (DOMAIN BuiltinRegistry \subseteq DOMAIN registry)'
      /\ \A b \in Range(Builtins) : Resolves(registry', b)
  BY BuiltinsResolve DEF Fresh
<1>3. /\ (installed \in DOMAIN Installations /\ plugins \in Plugins)'
      /\ (scans = 0 /\ registry = BuiltinRegistry)'
  BY DEF Fresh, Process
<1>4. (discovered \in BOOLEAN /\ (discovered <=> scans # 0))'
  BY DEF Fresh
<1>5. QED
  BY <1>1, <1>2, <1>3, <1>4 DEF Process

\* The installations change under a process, which keeps what it scanned.
LEMMA ProcessInv == IInv /\ [Next]_vars => Process'
<1> SUFFICES ASSUME IInv, [Next]_vars PROVE Process'
  OBVIOUS
<1> USE DEF IInv
<1>1. CASE Look
  BY <1>1, DiscoverKeeps DEF Look
<1>2. CASE Begin
  BY <1>2, DiscoverKeeps DEF Begin
<1>3. CASE Restart
  BY <1>3, FreshProcess DEF Restart
<1>4. CASE UNCHANGED processVars /\ installed' \in DOMAIN Installations
  BY <1>4 DEF Process, processVars, AllOrNone, HealthyLoads
<1>5. CASE Edit \/ Delete \/ Work \/ UNCHANGED vars
  BY <1>4, <1>5 DEF Process, Edit, Delete, Work, Reuse, ChildRead, ChildWrite, Finish, Fail, vars
<1>6. CASE Install
  BY <1>4, <1>6 DEF Install
<1>7. QED
  BY <1>1, <1>2, <1>3, <1>5, <1>6 DEF Next

-----------------------------------------------------------------------------
(* The hash *)

\* What a new process resolves the target to is a built-in or comes with the
\* environment.
LEMMA ResolvedIs ==
  ASSUME NEW w \in World, w.target \in DOMAIN Resolved(w)
  PROVE  LET t == Resolved(w)[w.target]
         IN  \/ t \in Range(Builtins) /\ t.dist = "pssc" /\ t.name \in BuiltinNames
             \/ t \in Offered(w.installed) /\ t.dist \notin {"pssc", "unknown"}
<1>1. w.installed \in DOMAIN Installations /\ w.plugins \in Plugins
  BY DEF World
<1>2. PICK i \in DOMAIN Installations : i = w.installed
  BY <1>1
<1>3. PICK p \in Plugins : p = w.plugins
  BY <1>1
<1>4. FirstScan[p][i] = Scan(BuiltinRegistry, Found(p, i))
  BY DEF FirstScan
<1>5. PICK reg : reg = Scan(BuiltinRegistry, Found(p, i)).reg
  OBVIOUS
<1>6. Resolved(w) = reg
  BY <1>2, <1>3, <1>4, <1>5 DEF Resolved
<1>7. Values(reg) \subseteq Range(Builtins) \cup Offered(i)
  BY <1>5, ScanKeeps, BuiltinsResolve DEF Pristine
<1>8. reg[w.target] \in Values(reg)
  BY <1>6 DEF Values
<1>9. \A t \in Range(Builtins) : t.dist = "pssc" /\ t.name \in BuiltinNames
  BY BuiltinsAssumption DEF BuiltinNames
<1>10. \A t \in Offered(i) : t.dist \notin {"pssc", "unknown"}
  BY InstallationsAssumption
<1>11. QED
  BY <1>2, <1>6, <1>7, <1>8, <1>9, <1>10

\* The version found for a target with metadata is its own.
LEMMA VersionIs ==
  ASSUME NEW w, w.installed \in DOMAIN Installations, NEW t \in Offered(w.installed)
  PROVE  VersionOf(w, t.dist) = IF t.dist = "nometa" THEN {} ELSE {t.version}
<1>1. \A u \in Offered(w.installed) : u.dist = t.dist => u.version = t.version
  BY InstallationsAssumption
<1>2. QED
  BY <1>1 DEF VersionOf

\* What Begin hashes.
LEMMA HashIs ==
  ASSUME NEW w \in World, NEW reg, NEW v, NEW a,
         a = [world |-> w, hash |-> Hash(w, reg, v), upToDate |-> UpToDate(w, reg, v)]
  PROVE  Certified(a, runs)
<1>1. a.world = w /\ a.hash = Hash(w, reg, v) /\ a.upToDate = UpToDate(w, reg, v)
  OBVIOUS
<1>2. UpToDate(w, reg, v) \in BOOLEAN
  BY DEF UpToDate
<1>3. ASSUME UpToDate(w, reg, v)
      PROVE  Provenance(w, reg, v) = IF Unnamed(w) THEN <<"unknown", runs>> ELSE Known(w)
  <2>1. CASE w.target \notin DOMAIN Resolved(w)
    BY <1>3, <2>1 DEF UpToDate, Provenance, Unnamed
  <2>2. CASE w.target \in DOMAIN Resolved(w)
    <3>1. PICK t : t = Resolved(w)[w.target]
      OBVIOUS
    <3>2. /\ w.target \in DOMAIN reg /\ reg[w.target] = t
          /\ t.name \in BuiltinNames => v = PsscIn(w.installed)
      BY <1>3, <2>2, <3>1 DEF UpToDate
    <3>3. CASE t.name \in BuiltinNames
      BY <2>2, <3>1, <3>2, <3>3 DEF Provenance, Unnamed, Known
    <3>4. CASE t.name \notin BuiltinNames
      <4>1. t \in Offered(w.installed) /\ w.installed \in DOMAIN Installations
        BY <2>2, <3>1, <3>4, ResolvedIs DEF World
      <4>2. VersionOf(w, t.dist) = IF t.dist = "nometa" THEN {} ELSE {t.version}
        BY <4>1, VersionIs
      <4>3. PICK found : found = VersionOf(w, t.dist)
        OBVIOUS
      <4>4. Provenance(w, reg, v) = IF found # {} THEN <<t.dist, CHOOSE x \in found : TRUE>> ELSE <<"unknown", runs>>
        BY <3>2, <3>4, <4>3 DEF Provenance
      <4>5. found = {t.version} => (CHOOSE x \in found : TRUE) = t.version
        OBVIOUS
      <4>6. CASE t.dist = "nometa"
        BY <2>2, <3>1, <3>4, <4>2, <4>3, <4>4, <4>6 DEF Unnamed
      <4>7. CASE t.dist # "nometa"
        BY <2>2, <3>1, <3>4, <4>2, <4>3, <4>4, <4>5, <4>7 DEF Unnamed, Known
      <4>8. QED
        BY <4>6, <4>7
    <3>5. QED
      BY <3>3, <3>4
  <2>3. QED
    BY <2>1, <2>2
<1>4. QED
  BY <1>1, <1>2, <1>3 DEF Certified, Hash

-----------------------------------------------------------------------------
(* The task *)

\* Before the first run there is nothing.
LEMMA InitInv == Init => IInv
<1> SUFFICES ASSUME Init PROVE IInv
  OBVIOUS
<1>1. Process
  BY InitProcess DEF Init
<1>2. Task
  <2>1. changed \in BOOLEAN /\ tainted \in BOOLEAN
    BY DEF Init
  <2>2. /\ src \in Good /\ pc = "idle" /\ dir = <<>> /\ memento = <<>> /\ result = "none"
        /\ changes = 0 /\ runs = 1
    BY DEF Init
  <2>3. imported \in {PsscIn(i) : i \in DOMAIN Installations}
    BY DEF Init, RegistryInit
  <2>4. QED
    BY <2>1, <2>2, <2>3, BuildAssumption DEF Task, PC
<1>3. Stored
  BY DEF Init, Stored
<1>4. QED
  BY <1>1, <1>2, <1>3 DEF IInv

\* What Begin gathers.
LEMMA BeginInv ==
  ASSUME IInv, Begin
  PROVE  Task' /\ Stored'
<1> USE DEF IInv
<1>1. PICK k \in Tasks :
        LET w == [src |-> src, opt |-> k.opt, target |-> k.target, installed |-> installed,
                  plugins |-> plugins]
        IN  asof' = [world |-> w, hash |-> Hash(w, registry', imported),
                     upToDate |-> UpToDate(w, registry', imported)]
  BY DEF Begin
<1>2. PICK w : w = [src |-> src, opt |-> k.opt, target |-> k.target, installed |-> installed,
                    plugins |-> plugins]
  OBVIOUS
<1>3. w \in World
  <2>1. k.opt \in Option /\ k.target \in Targets
    BY DEF Option, Targets
  <2>2. QED
    BY <1>2, <2>1 DEF World, Task, Process
<1>4. PICK reg : reg = registry'
  OBVIOUS
<1>5. asof' = [world |-> w, hash |-> Hash(w, reg, imported), upToDate |-> UpToDate(w, reg, imported)]
  BY <1>1, <1>2, <1>4
<1>6. Certified(asof', runs)
  BY <1>3, <1>5, HashIs
<1>7. /\ pc = "idle" /\ pc' = "hashed" /\ changed' \in BOOLEAN
      /\ UNCHANGED <<imported, src, dir, memento, read, result, got, tainted, changes, runs>>
  BY DEF Begin
<1>8. Task'
  BY <1>6, <1>7 DEF Task, PC, Certified, Generated
<1>9. Stored'
  BY <1>7 DEF Stored
<1>10. QED
  BY <1>8, <1>9

\* A child reads what it compiles for itself.
LEMMA ChildReadInv ==
  ASSUME IInv, ChildRead
  PROVE  Task' /\ Stored'
<1> USE DEF IInv
<1>1. /\ pc = "hashed" /\ UNCHANGED <<imported, src, dir, memento, asof, changed, result, got, tainted, changes, runs>>
      /\ pc' \in {"read", "failed"}
  BY DEF ChildRead
<1>2. PICK w : w = [asof.world EXCEPT !.src = src, !.installed = installed]
  OBVIOUS
<1>3. pc' = "read" => Compiles(w) /\ read' = <<Product(w)>>
  BY <1>2 DEF ChildRead
<1>4. asof.world \in World
  BY <1>1 DEF Task, Certified
<1>5. w.src = src /\ w.opt \in Option
  <2>1. PICK v \in World : v = asof.world
    BY <1>4
  <2>2. /\ w = [[v EXCEPT !.src = src] EXCEPT !.installed = installed]
    BY <1>2, <2>1
  <2>3. QED
    BY <2>2 DEF World
<1>6. pc' = "read" => Generated(read') /\ Len(read') = 1
  <2> SUFFICES ASSUME pc' = "read" PROVE Generated(read') /\ Len(read') = 1
    OBVIOUS
  <2>1. Product(w).src \in Good /\ Product(w).opt \in Option
    BY <1>3, <1>5 DEF Compiles, Product
  <2>2. QED
    BY <1>3, <2>1 DEF Generated
<1>7. Task'
  BY <1>1, <1>6 DEF Task, PC, Certified, Generated
<1>8. Stored'
  BY <1>1 DEF Stored
<1>9. QED
  BY <1>7, <1>8

\* It leaves its whole output, or a part of it; either is of what it read.
LEMMA ChildWriteInv ==
  ASSUME IInv, ChildWrite
  PROVE  Task' /\ Stored'
<1> USE DEF IInv
<1>1. /\ pc = "read" /\ tainted' = TRUE
      /\ UNCHANGED <<imported, src, memento, asof, changed, read, result, got, changes, runs>>
      /\ \/ dir' = read /\ pc' = "wrote"
         \/ dir' = <<[read[1] EXCEPT !.whole = FALSE]>> /\ pc' = "failed"
  BY DEF ChildWrite
<1>2. Generated(read)
  BY <1>1 DEF Task
<1>3. Generated(dir')
  <2>1. CASE dir' = read
    BY <1>2, <2>1
  <2>2. CASE dir' = <<[read[1] EXCEPT !.whole = FALSE]>>
    <3>1. PICK out : out = read[1]
      OBVIOUS
    <3>2. PICK cut : cut = [out EXCEPT !.whole = FALSE]
      OBVIOUS
    <3>3. dir'[1] = cut
      BY <2>2, <3>1, <3>2
    <3>4. out.src \in Good /\ out.opt \in Option
      BY <1>2, <3>1 DEF Generated
    <3>5. cut.src = out.src /\ cut.opt = out.opt
      BY <3>2
    <3>6. QED
      BY <3>3, <3>4, <3>5 DEF Generated
  <2>3. QED
    BY <1>1, <2>1, <2>2
<1>4. Task'
  BY <1>1, <1>3 DEF Task, PC, Certified, Generated
<1>5. Stored'
  BY <1>1 DEF Stored
<1>6. QED
  BY <1>4, <1>5

\* The task returns its memento, and what the output is of is checked.
LEMMA FinishInv ==
  ASSUME IInv, Finish
  PROVE  Task' /\ Stored'
<1> USE DEF IInv
<1>1. /\ pc = "wrote" /\ pc' = "done" /\ result' = "built" /\ memento' = <<asof>>
      /\ tainted' = ~(asof.upToDate /\ Expected(read))
      /\ UNCHANGED <<imported, src, dir, asof, changed, read, changes, runs>>
  BY DEF Finish
<1>2. memento'[1] = asof /\ memento' # <<>>
  BY <1>1
<1>3. Certified(asof, runs) /\ dir \in {read, <<>>} /\ runs \in Nat \ {0}
  BY <1>1, BuildAssumption DEF Task
<1>4. tainted' \in BOOLEAN
  BY <1>1
<1>5. Task'
  <2>1. \E n \in 1 .. runs' : (n = runs' => pc' = "done") /\ Certified(memento'[1], n)
    BY <1>1, <1>2, <1>3
  <2>2. QED
    BY <1>1, <1>3, <1>4, <2>1 DEF Task, PC, Generated
<1>6. Stored'
  <2> SUFFICES ASSUME ~tainted', dir' # <<>>
               PROVE  asof.upToDate /\ Compiles(asof.world) /\ dir' = <<Product(asof.world)>>
    BY <1>2 DEF Stored
  <2>1. asof.upToDate /\ Expected(read) /\ dir = read
    BY <1>1, <1>3
  <2>2. QED
    BY <1>1, <2>1 DEF Expected
<1>7. QED
  BY <1>5, <1>6

\* The steps that leave the memento and the output alone, or lose one.
LEMMA LosingInv ==
  ASSUME IInv, Reuse \/ Fail \/ Delete
  PROVE  Task' /\ Stored'
<1> USE DEF IInv
<1>1. CASE Reuse
  BY <1>1 DEF Reuse, Task, Stored, PC, Certified, Generated
<1>2. CASE Fail
  <2>1. /\ pc = "failed" /\ pc' = "done" /\ result' = "failed" /\ memento' = <<>> /\ tainted' = FALSE
        /\ UNCHANGED <<imported, src, dir, asof, changed, read, changes, runs>>
    BY <1>2 DEF Fail
  <2>2. tainted' \in BOOLEAN
    BY <2>1
  <2>3. Task'
    BY <2>1, <2>2 DEF Task, PC, Generated
  <2>4. QED
    BY <2>1, <2>3 DEF Stored
<1>3. CASE Delete
  <2>1. changes' \in 0 .. MaxChanges
    BY <1>3, BuildAssumption DEF Delete, Change, Task
  <2>2. /\ dir' = <<>>
        /\ UNCHANGED <<imported, src, memento, pc, asof, changed, read, result, tainted, runs>>
    BY <1>3 DEF Delete
  <2>3. QED
    BY <2>1, <2>2 DEF Task, Stored
<1>4. QED
  BY <1>1, <1>2, <1>3

\* A later run begins with what the manager persisted.
LEMMA RestartInv ==
  ASSUME IInv, Restart
  PROVE  Task' /\ Stored'
<1> USE DEF IInv
<1>1. /\ runs < MaxRuns /\ runs' = runs + 1 /\ pc' = "idle" /\ result' = "none"
      /\ changed' = TRUE /\ UNCHANGED <<src, dir, memento, tainted, changes>>
      /\ imported' = PsscIn(installed)
  BY DEF Restart
<1>2. runs \in Nat /\ runs' \in 1 .. MaxRuns
  BY <1>1, BuildAssumption DEF Task
<1>3. memento # <<>> => \E n \in 1 .. runs' : n # runs' /\ Certified(memento[1], n)
  BY <1>1, <1>2 DEF Task
<1>4. Task'
  <2>1. imported' \in {PsscIn(i) : i \in DOMAIN Installations}
    BY <1>1 DEF Process
  <2>2. QED
    BY <1>1, <1>2, <1>3, <2>1 DEF Task, PC, Generated
<1>5. Stored'
  BY <1>1 DEF Stored
<1>6. QED
  BY <1>4, <1>5

\* The world changes beside the task, or the process looks at its targets.
LEMMA BesideInv ==
  ASSUME IInv, Edit \/ Install \/ Look \/ UNCHANGED vars
  PROVE  Task' /\ Stored'
<1> USE DEF IInv
<1>1. UNCHANGED <<imported, dir, memento, pc, asof, changed, read, result, tainted, runs>>
  BY DEF Edit, Install, Look, vars, taskVars
<1>2. src' \in Good \cup Bad
  BY DEF Edit, Install, Look, vars, taskVars, Task
<1>3. changes' \in 0 .. MaxChanges
  BY BuildAssumption DEF Edit, Install, Look, vars, taskVars, Change, Task
<1>4. QED
  BY <1>1, <1>2, <1>3 DEF Task, Stored

\* So every step keeps the invariant.
LEMMA Invariance == Spec => []IInv
<1>1. IInv /\ [Next]_vars => IInv'
  <2> SUFFICES ASSUME IInv, [Next]_vars PROVE IInv'
    OBVIOUS
  <2>1. Process'
    BY ProcessInv
  <2>2. Task' /\ Stored'
    BY BeginInv, ChildReadInv, ChildWriteInv, FinishInv, LosingInv, RestartInv, BesideInv
       DEF Next, Work
  <2>3. QED
    BY <2>1, <2>2 DEF IInv
<1>2. QED
  BY <1>1, InitInv, PTL DEF Spec

-----------------------------------------------------------------------------
(* The registry's promises *)

\* The types of the variables; what is registered is never unregistered.
THEOREM TypeCorrect == Spec => []TypeOK
<1>1. IInv => TypeOK
  BY DEF IInv, Process, Task, Generated, TypeOK, PsscVersions
<1>2. QED
  BY <1>1, Invariance, PTL

\* Whatever the plugins, their order and their failures, and however often
\* they are scanned, none takes a name of pssc without saying so.
THEOREM NoNameIsTaken == Spec => []NoSilentSubstitution
<1>1. IInv => NoSilentSubstitution
  BY DEF IInv, Process, Resolves, NoSilentSubstitution
<1>2. QED
  BY <1>1, Invariance, PTL

\* An entry point leaves all its targets or none: register() has no undo, and
\* _load_one restores the registry.
THEOREM FamiliesLoadWhole == Spec => []AllOrNone
<1>1. IInv => AllOrNone
  BY DEF IInv, Process
<1>2. QED
  BY <1>1, Invariance, PTL

\* A plugin that is healthy by itself is loaded, whatever the others do.
THEOREM HealthyPluginsLoad == Spec => []HealthyLoads
<1>1. IInv => HealthyLoads
  BY DEF IInv, Process
<1>2. QED
  BY <1>1, Invariance, PTL

-----------------------------------------------------------------------------
(* The build task's promises *)

\* Two worlds with one hash resolve the target to one; a hash that names nobody
\* is of one run only.
LEMMA SameHash ==
  ASSUME Identifiable, NEW a, NEW m, NEW n, NEW r, n # r,
         Certified(a, n), Certified(m, r), a.upToDate, m.upToDate, a.hash = m.hash,
         Compiles(m.world)
  PROVE  /\ Compiles(a.world)
         /\ Product(a.world).by = Product(m.world).by
         /\ \/ Product(a.world).by.dist # "pssc"
            \/ PsscIn(a.world.installed) = PsscIn(m.world.installed)
         /\ a.world.src = m.world.src /\ a.world.opt = m.world.opt
<1> DEFINE Who(w, k) == IF Unnamed(w) THEN <<"unknown", k>> ELSE Known(w)
<1>1. /\ a.world \in World /\ m.world \in World
      /\ a.world.src = m.world.src /\ a.world.opt = m.world.opt
      /\ a.world.target = m.world.target
      /\ Who(a.world, n) = Who(m.world, r)
  BY DEF Certified
<1>2. ASSUME NEW w \in World, ~Unnamed(w)
      PROVE  LET t == Resolved(w)[w.target]
             IN  /\ w.target \in DOMAIN Resolved(w)
                 /\ t.dist = "pssc" => Known(w) = <<"pssc", PsscIn(w.installed)>>
                 /\ t.dist # "pssc" => Known(w) = <<t.dist, t.version>>
                 /\ t.dist # "unknown"
  <2>1. PICK t : t = Resolved(w)[w.target]
    OBVIOUS
  <2>2. w.target \in DOMAIN Resolved(w)
    BY <1>2 DEF Unnamed
  <2>3. \/ t \in Range(Builtins) /\ t.dist = "pssc" /\ t.name \in BuiltinNames
        \/ t.dist \notin {"pssc", "unknown"}
    BY <2>1, <2>2, ResolvedIs
  <2>4. t.name \in BuiltinNames => t.dist = "pssc"
    BY <2>1, <2>2 DEF Identifiable, Resolved, World
  <2>5. CASE t.name \in BuiltinNames
    BY <2>1, <2>2, <2>4, <2>5 DEF Known
  <2>6. CASE t.name \notin BuiltinNames
    BY <2>1, <2>2, <2>3, <2>6 DEF Known
  <2>7. QED
    BY <2>5, <2>6
<1>3. ~Unnamed(a.world) /\ ~Unnamed(m.world)
  <2>1. ASSUME NEW w \in World, NEW v \in World, NEW j, NEW k, j # k, Who(w, j) = Who(v, k)
        PROVE  ~Unnamed(w)
    <3>1. CASE Unnamed(w) /\ Unnamed(v)
      BY <2>1, <3>1
    <3>2. CASE Unnamed(w) /\ ~Unnamed(v)
      <4>1. Known(v) = <<"unknown", j>>
        BY <2>1, <3>2
      <4>2. QED
        BY <1>2, <3>2, <4>1
    <3>3. QED
      BY <3>1, <3>2
  <2> HIDE DEF Who
  <2>2. QED
    BY <1>1, <2>1
<1>4. PICK t, u : t = Resolved(a.world)[a.world.target] /\ u = Resolved(m.world)[m.world.target]
  OBVIOUS
<1>5. /\ a.world.target \in DOMAIN Resolved(a.world) /\ m.world.target \in DOMAIN Resolved(m.world)
      /\ Known(a.world) = Known(m.world)
      /\ t.dist = "pssc" => Known(a.world) = <<"pssc", PsscIn(a.world.installed)>>
      /\ t.dist # "pssc" => Known(a.world) = <<t.dist, t.version>>
      /\ u.dist = "pssc" => Known(m.world) = <<"pssc", PsscIn(m.world.installed)>>
      /\ u.dist # "pssc" => Known(m.world) = <<u.dist, u.version>>
  BY <1>1, <1>2, <1>3, <1>4
<1>6. /\ t.dist = u.dist
      /\ t.dist = "pssc" => PsscIn(a.world.installed) = PsscIn(m.world.installed)
      /\ t.dist # "pssc" => t.version = u.version
  BY <1>5
<1>7. t = u
  <2>1. Provider(t) = Provider(u)
    BY <1>6 DEF Provider
  <2>2. PICK p \in Plugins, q \in Plugins, i \in DOMAIN Installations, j \in DOMAIN Installations :
           Resolved(a.world) = FirstScan[p][i].reg /\ Resolved(m.world) = FirstScan[q][j].reg
    BY <1>1 DEF World, Resolved
  <2>3. a.world.target \in Targets
    BY <1>1 DEF World
  <2>4. QED
    BY <1>1, <1>4, <1>5, <2>1, <2>2, <2>3 DEF Identifiable
<1>8. QED
  BY <1>1, <1>4, <1>5, <1>6, <1>7 DEF Compiles, Product

\* What a run reuses is what a compile of the world it hashed would produce:
\* the same sources, options, target and pssc, in a whole file, but for a
\* plugin's output that another pssc has generated.
THEOREM ReuseIsFresh ==
  ASSUME Identifiable
  PROVE  Spec => []FreshReuse
<1>1. Init => FreshReuse
  BY DEF Init, FreshReuse
<1>2. IInv /\ FreshReuse /\ [Next]_vars => FreshReuse'
  <2> SUFFICES ASSUME IInv, FreshReuse, [Next]_vars, result' = "reused", ~tainted', asof'.upToDate,
                      ~PsscUpgraded'
               PROVE  Expected(got)'
    BY DEF FreshReuse
  <2> USE DEF IInv
  <2>1. CASE Reuse
    <3>1. /\ pc = "hashed" /\ memento # <<>> /\ dir # <<>> /\ memento[1].hash = asof.hash
          /\ got' = dir /\ asof' = asof /\ tainted' = tainted
      BY <2>1 DEF Reuse, Hit
    <3>2. PICK m : m = memento[1]
      OBVIOUS
    <3>3. m.upToDate /\ Compiles(m.world) /\ dir = <<Product(m.world)>>
      BY <3>1, <3>2 DEF Stored
    <3>4. PICK r : r # runs /\ Certified(m, r)
      BY <3>1, <3>2 DEF Task
    <3>5. Certified(asof, runs)
      BY <3>1 DEF Task
    <3>6. /\ Compiles(asof.world) /\ Product(asof.world).by = Product(m.world).by
          /\ \/ Product(asof.world).by.dist # "pssc"
             \/ PsscIn(asof.world.installed) = PsscIn(m.world.installed)
          /\ asof.world.src = m.world.src /\ asof.world.opt = m.world.opt
      BY <3>1, <3>2, <3>3, <3>4, <3>5, SameHash
    <3>7. PsscIn(asof.world.installed) = PsscIn(m.world.installed)
      <4>1. got'[1] = Product(m.world)
        BY <3>1, <3>3
      <4>2. Product(m.world).pssc = PsscIn(m.world.installed)
        BY DEF Product
      <4>3. QED
        BY <3>1, <3>6, <4>1, <4>2 DEF PsscUpgraded
    <3>8. Product(asof.world) = Product(m.world)
      BY <3>6, <3>7 DEF Product
    <3>9. QED
      BY <3>1, <3>3, <3>6, <3>8 DEF Expected
  <2>2. CASE UNCHANGED <<result, got, asof, tainted>>
    BY <2>2 DEF FreshReuse, Expected, PsscUpgraded
  <2>3. CASE Edit \/ Install \/ Delete \/ Look \/ UNCHANGED vars
    BY <2>2, <2>3 DEF Edit, Install, Delete, Look, vars, taskVars
  <2>4. CASE Restart \/ Finish \/ Fail
    BY <2>4 DEF Restart, Finish, Fail
  <2>5. CASE Begin \/ ChildRead \/ ChildWrite
    BY <2>5 DEF Begin, ChildRead, ChildWrite, Task
  <2>6. QED
    BY <2>1, <2>3, <2>4, <2>5 DEF Next, Work
<1>3. QED
  BY <1>1, <1>2, Invariance, PTL DEF Spec

\* A run compiles again only for a cause.
THEOREM RebuildsHaveCause == Spec => RebuildHasCause
<1>1. IInv /\ [Next]_vars =>
        [(pc = "hashed" /\ pc' \in {"read", "failed"}) =>
            \/ changed
            \/ memento = <<>>
            \/ dir = <<>>
            \/ memento[1].world # asof.world
            \/ Anonymous(asof.world)
            \/ ~asof.upToDate
            \/ ~memento[1].upToDate]_vars
  <2> SUFFICES ASSUME IInv, [Next]_vars, pc = "hashed", pc' \in {"read", "failed"},
                      ~changed, memento # <<>>, dir # <<>>, memento[1].world = asof.world,
                      ~Anonymous(asof.world), asof.upToDate, memento[1].upToDate
               PROVE  FALSE
    OBVIOUS
  <2>1. ChildRead
    BY DEF Next, Work, Edit, Install, Delete, Restart, Look, Begin, Reuse, ChildWrite, Finish, Fail,
           vars, taskVars
  <2>2. memento[1].hash # asof.hash
    BY <2>1 DEF ChildRead, Hit
  <2>3. PICK m : m = memento[1]
    OBVIOUS
  <2>4. PICK r : Certified(m, r)
    BY <2>3 DEF IInv, Task
  <2>5. Certified(asof, runs)
    BY DEF IInv, Task
  <2>6. ~Unnamed(asof.world)
    BY DEF Anonymous, Unnamed
  <2>7. QED
    BY <2>2, <2>3, <2>4, <2>5, <2>6 DEF Certified
<1>2. QED
  BY <1>1, Invariance, PTL DEF Spec, RebuildHasCause
=============================================================================
