------------------------------- MODULE Registry -------------------------------
(***************************************************************************)
(* The target registry of one process (targets/__init__.py): the built-in  *)
(* targets registered at import, and discovery of the targets that plugins *)
(* advertise as entry points.                                              *)
(*                                                                         *)
(* A target is a record: its name, aliases, the names it replaces, the     *)
(* distribution and version it comes from, whether it speaks this pssc's   *)
(* API, and whether it is fit (requires_pssc and check_overrides accept    *)
(* it).  An entry point has a name and a family of targets, and "loads"    *)
(* unless its import or its callable raises.                               *)
(***************************************************************************)
EXTENDS Naturals, Sequences, Functions

CONSTANTS Builtins,       \* the sequence of targets pssc ships
          Installations,  \* what may be installed: functions to a pssc version
                          \* and a sequence of entry points
          Plugins         \* values of "plugins" a process may be started with

Claimed(t) == {t.name} \cup t.aliases

BuiltinNames == {t.name : t \in Range(Builtins)}

ASSUME BuiltinsAssumption ==
  /\ \A i, j \in DOMAIN Builtins : i # j => Claimed(Builtins[i]) \cap Claimed(Builtins[j]) = {}
  /\ Plugins \subseteq BOOLEAN
  /\ \A t \in Range(Builtins) : t.dist = "pssc" /\ t.fit
  /\ Builtins \in Seq(Range(Builtins))

\* The targets that the entry points of an environment bring.
Offered(i) == UNION {Range(ep.targets) : ep \in Range(Installations[i].eps)}

\* A target is an object of the one entry point that made it.  A distribution
\* has one version in an environment, and pssc advertises no targets.
ASSUME InstallationsAssumption ==
  \A i \in DOMAIN Installations :
    LET eps == Installations[i].eps
    IN  /\ eps \in Seq(Range(eps))
        /\ \A ep \in Range(eps) : ep.targets \in Seq(Range(ep.targets))
        /\ \A m, n \in DOMAIN eps : m # n => Range(eps[m].targets) \cap Range(eps[n].targets) = {}
        /\ \A t \in Offered(i) : t.dist \notin {"pssc", "unknown"}
        /\ \A t, u \in Offered(i) : t.dist = u.dist => t.version = u.version

-----------------------------------------------------------------------------
(* register() *)

\* Faulty: only the canonical name is checked.
CollidesByName(reg, t) == t.name \in DOMAIN reg /\ t.name \notin t.replaces

Collides(reg, t) == \E n \in Claimed(t) : n \in DOMAIN reg /\ n \notin t.replaces

Registrable(reg, t) == ~Collides(reg, t) /\ t.fit

Put(reg, t) == [n \in DOMAIN reg \cup Claimed(t) |-> IF n \in Claimed(t) THEN t ELSE reg[n]]

\* One register() of a family; the first that raises ends it.
Step(r, t) == IF r.ok /\ Registrable(r.reg, t)
              THEN [ok |-> TRUE, reg |-> Put(r.reg, t)]
              ELSE [r EXCEPT !.ok = FALSE]

RegisterFamily(reg, ts) ==
    LET after[n \in 0 .. Len(ts)] == IF n = 0 THEN [ok |-> TRUE, reg |-> reg]
                                               ELSE Step(after[n - 1], ts[n])
    IN  after[Len(ts)]

\* The registry of a process that has just imported the package.
BuiltinRegistry == RegisterFamily(<<>>, Builtins).reg

-----------------------------------------------------------------------------
(* discover() *)

\* What is checked before the first register() of an entry point.
Loads(ep) == ep.loads /\ ep.targets # <<>> /\ \A t \in Range(ep.targets) : t.api

\* Faulty: an entry point that fails leaves what it had registered.
LoadOneKept(reg, ep) ==
    LET r == RegisterFamily(reg, ep.targets)
    IN  IF Loads(ep) THEN r ELSE [ok |-> FALSE, reg |-> reg]

\* _load_one: all the targets of an entry point, or none.
LoadOne(reg, ep) ==
    LET r == RegisterFamily(reg, ep.targets)
    IN  IF Loads(ep) /\ r.ok THEN r ELSE [ok |-> FALSE, reg |-> reg]

\* Faulty: the first entry point that fails ends the scan.
LoadNextAborting(s, ep) ==
    LET l == LoadOne(s.reg, ep)
    IN  IF l.ok /\ s.errors = {} THEN [s EXCEPT !.reg = l.reg]
                                 ELSE [s EXCEPT !.errors = @ \cup {ep}]

LoadNext(s, ep) ==
    LET l == LoadOne(s.reg, ep)
    IN  [reg |-> l.reg, errors |-> IF l.ok THEN s.errors ELSE s.errors \cup {ep}]

\* PSSC_NO_PLUGINS skips the entry points.
Found(wanted, i) == IF wanted THEN Installations[i].eps ELSE <<>>

Scan(reg, eps) ==
    LET after[n \in 0 .. Len(eps)] == IF n = 0 THEN [reg |-> reg, errors |-> {}]
                                                ELSE LoadNext(after[n - 1], eps[n])
    IN  after[Len(eps)]

\* What the first scan of a process finds in each environment.
FirstScan == [p \in Plugins |-> [i \in DOMAIN Installations |->
                 Scan(BuiltinRegistry, Found(p, i))]]

-----------------------------------------------------------------------------
VARIABLES installed,   \* the Python environment, one of Installations
          plugins,     \* FALSE in a process started with PSSC_NO_PLUGINS
          registry,    \* _REGISTRY: names to targets
          errors,      \* _PLUGIN_ERRORS: the entry points that failed
          discovered,  \* _discovered
          scanned,     \* history: the entry points of the last scan
          scans        \* history: scans of this process

processVars == <<plugins, registry, errors, discovered, scanned, scans>>

\* A new process.
Fresh == /\ plugins' \in Plugins
         /\ registry' = BuiltinRegistry
         /\ errors' = {}
         /\ discovered' = FALSE
         /\ scanned' = <<>>
         /\ scans' = 0

RegistryInit == /\ installed \in DOMAIN Installations
                /\ plugins \in Plugins
                /\ registry = BuiltinRegistry
                /\ errors = {}
                /\ discovered = FALSE
                /\ scanned = <<>>
                /\ scans = 0

\* discover(force).
Discover(force) ==
    IF discovered /\ ~force
    THEN UNCHANGED processVars
    ELSE LET s == Scan(registry, Found(plugins, installed))
         IN  /\ registry' = s.reg
             /\ errors' = s.errors
             /\ discovered' = TRUE
             /\ scanned' = Found(plugins, installed)
             /\ scans' = scans + 1
             /\ UNCHANGED plugins

-----------------------------------------------------------------------------
(* Properties *)

\* A name that pssc ships always resolves, to the built-in or to a target that
\* names it in "replaces": whatever the plugins, their order, their failures
\* and however often they are scanned, none takes a name silently.
NoSilentSubstitution ==
    \A b \in Range(Builtins) : \A n \in Claimed(b) :
        n \in DOMAIN registry /\ (registry[n] = b \/ n \in registry[n].replaces)

\* After the first scan, an entry point that is reported failed has left no
\* target behind, and every name of any other resolves to its target or to
\* one that replaces it: all or none of a family.
AllOrNone ==
    scans = 1 =>
        \A ep \in Range(scanned) :
            IF ep \in errors
            THEN Range(ep.targets) \cap {registry[n] : n \in DOMAIN registry} = {}
            ELSE \A t \in Range(ep.targets) : \A n \in Claimed(t) :
                     n \in DOMAIN registry /\ (registry[n] = t \/ n \in registry[n].replaces)

\* The names an entry point takes without saying so, beside another.
Apart(ep, other) == \A t \in Range(ep.targets), u \in Range(other.targets) :
                        Claimed(t) \cap Claimed(u) = {}

Healthy(ep) == /\ Loads(ep)
               /\ \A t \in Range(ep.targets) : t.fit
               /\ \A i, j \in DOMAIN ep.targets :
                      i # j => Claimed(ep.targets[i]) \cap Claimed(ep.targets[j]) = {}
               /\ \A t \in Range(ep.targets), b \in Range(Builtins) :
                      Claimed(t) \cap Claimed(b) \subseteq t.replaces

\* A broken plugin breaks no other: an entry point that is healthy by itself
\* and shares no name with another is loaded, whatever the others do.
HealthyLoads ==
    scans = 1 =>
        \A i \in DOMAIN scanned :
            (/\ Healthy(scanned[i])
             /\ \A j \in DOMAIN scanned \ {i} : Apart(scanned[i], scanned[j]))
            => scanned[i] \notin errors
=============================================================================
