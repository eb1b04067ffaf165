------------------------------- MODULE BuildTask -------------------------------
(***************************************************************************)
(* A pssc build task of a DV flow (dvflow/common.py): it hashes what the   *)
(* output depends on, reuses the output of an earlier run when the hash is *)
(* that of its memento, and otherwise compiles in a child process.         *)
(*                                                                         *)
(* Around it, at any time: the sources are edited, packages are installed  *)
(* and upgraded, outputs are deleted, the child dies, the flow is killed.  *)
(* Each run of the flow is a process that executes the task once.  The     *)
(* sources are one content; an output is the record of what it was         *)
(* generated from, and "whole" is FALSE for a file cut short.              *)
(***************************************************************************)
EXTENDS Registry

CONSTANTS Good, Bad,   \* contents of the sources: accepted, rejected by the compiler
          Tasks,       \* what the flow may say of the task: a target's name and
                       \* options, as records
          MaxChanges,  \* bound on the edits, installations and deletions
          MaxRuns      \* bound on the processes

ASSUME BuildAssumption == /\ Good \cap Bad = {}
                          /\ MaxChanges \in Nat
                          /\ MaxRuns \in Nat \ {0}

Option  == {k.opt : k \in Tasks}
Targets == {k.target : k \in Tasks}

VARIABLES imported, \* the version of pssc that the process runs
          src,      \* content of the sources
          seen,     \* content when the task of the sources last ran
          dir,      \* the output directory: <<>> or one output
          memento,  \* persisted by the flow manager: <<>> or one memento
          pc,       \* where run_build is
          asof,     \* what this run hashed: the world it started in
          changed,  \* input.changed of this run
          read,     \* what the child read
          result,   \* of the last run
          got,      \* the output the last run delivered
          tainted,  \* history: dir is not what the memento was computed for
          changes, runs

taskVars == <<imported, src, seen, dir, memento, pc, asof, changed, read, result, got, tainted, changes, runs>>
vars == <<installed, processVars, taskVars>>

-----------------------------------------------------------------------------
(* What a compile produces, and what is hashed *)

\* The version of an installed distribution, as a set: empty if it is not
\* installed or has no metadata.
VersionOf(w, dist) ==
    {t.version : t \in {u \in Offered(w.installed) : u.dist = dist /\ dist # "nometa"}}

Resolved(w) == FirstScan[w.plugins][w.installed].reg

PsscIn(i) == Installations[i].pssc
PsscVersions == {PsscIn(i) : i \in DOMAIN Installations}

\* Faulty: the child goes on after the front end has reported errors.
CompilesAnything(w) == w.target \in DOMAIN Resolved(w)

Compiles(w) == w.src \in Good /\ w.target \in DOMAIN Resolved(w)

\* What is generated depends on the target that a new process resolves the name
\* to, and, whoever that comes from, on pssc's front end, IR and driver.
Product(w) == [src |-> w.src, opt |-> w.opt, by |-> Resolved(w)[w.target],
               pssc |-> PsscIn(w.installed), whole |-> TRUE]

\* target_provenance, in a process that runs version v of pssc and has the
\* registry reg.  is_builtin asks for the name of the target that is registered.
Provenance(w, reg, v) ==
    IF w.target \notin DOMAIN reg THEN <<"unknown", runs>>
    ELSE LET t == reg[w.target]
             found == VersionOf(w, t.dist)
         IN  IF t.name \in BuiltinNames THEN <<"pssc", v>>
             ELSE IF found # {} THEN <<t.dist, CHOOSE x \in found : TRUE>>
             ELSE <<"unknown", runs>>

\* The process hashes what a new one would: since it started and scanned,
\* nothing was installed that matters.
UpToDate(w, reg, v) ==
    \/ w.target \notin DOMAIN reg \cup DOMAIN Resolved(w)
    \/ /\ w.target \in DOMAIN reg \cap DOMAIN Resolved(w)
       /\ reg[w.target] = Resolved(w)[w.target]
       /\ reg[w.target].name \in BuiltinNames => v = PsscIn(w.installed)

\* Faulty: the hash never matches that of another process.
HashPerProcess(w, reg, v) == <<w.src, w.opt, w.target, Provenance(w, reg, v), runs>>

\* compute_memento.
Hash(w, reg, v) == <<w.src, w.opt, w.target, Provenance(w, reg, v)>>

-----------------------------------------------------------------------------
\* An output that a compile of the world this run hashed would produce.
Expected(out) == Compiles(asof.world) /\ out = <<Product(asof.world)>>

Init == /\ RegistryInit
        /\ imported = PsscIn(installed)
        /\ src \in Good
        /\ seen = <<>>
        /\ dir = <<>>
        /\ memento = <<>>
        /\ pc = "idle"
        /\ asof = <<>>
        /\ changed = TRUE
        /\ read = <<>>
        /\ result = "none"
        /\ got = <<>>
        /\ tainted = FALSE
        /\ changes = 0
        /\ runs = 1

(* The world around the flow *)

Change == changes < MaxChanges /\ changes' = changes + 1

Edit == /\ Change
        /\ src' \in (Good \cup Bad) \ {src}
        /\ UNCHANGED <<installed, processVars, imported, seen, dir, memento, pc, asof, changed, read,
                       result, got, tainted, runs>>

Install == /\ Change
           /\ installed' \in DOMAIN Installations \ {installed}
           /\ UNCHANGED <<processVars, imported, src, seen, dir, memento, pc, asof, changed, read,
                          result, got, tainted, runs>>

Delete == /\ Change
          /\ dir # <<>>
          /\ dir' = <<>>
          /\ UNCHANGED <<installed, processVars, imported, src, seen, memento, pc, asof, changed, read,
                         result, got, tainted, runs>>

\* A new run of the flow, also after the last one was killed.  What the
\* manager persisted stays.
Restart == /\ runs < MaxRuns
           /\ pc # "idle"
           /\ runs' = runs + 1
           /\ Fresh
           /\ imported' = PsscIn(installed)
           /\ pc' = "idle"
           /\ asof' = <<>> /\ read' = <<>> /\ got' = <<>>
           /\ result' = "none"
           /\ changed' = TRUE
           /\ UNCHANGED <<installed, src, seen, dir, memento, tainted, changes>>

(* run_build *)

\* Anything in the process may ask for the targets first, and with force.
Look == /\ pc = "idle"
        /\ scans < 2
        /\ \E force \in BOOLEAN : Discover(force)
        /\ UNCHANGED <<installed, taskVars>>

\* The sources' task has run; run_build gathers and hashes.  discover() is
\* called on the way.
Begin == /\ pc = "idle"
         /\ Discover(FALSE)
         /\ changed' = (seen # <<src>>)
         /\ seen' = <<src>>
         /\ \E k \in Tasks :
                LET w == [src |-> src, opt |-> k.opt, target |-> k.target,
                          installed |-> installed, plugins |-> plugins]
                IN  asof' = [world |-> w, hash |-> Hash(w, registry', imported),
                             upToDate |-> UpToDate(w, registry', imported)]
         /\ pc' = "hashed"
         /\ UNCHANGED <<installed, imported, src, dir, memento, read, result, got, tainted, changes, runs>>

Hit == /\ ~changed
       /\ memento # <<>>
       /\ memento[1].hash = asof.hash
       /\ dir # <<>>

\* The memento's output is delivered again.
Reuse == /\ pc = "hashed"
         /\ Hit
         /\ result' = "reused"
         /\ got' = dir
         /\ pc' = "done"
         /\ UNCHANGED <<installed, processVars, imported, src, seen, dir, memento, asof, changed, read,
                        tainted, changes, runs>>

\* The child resolves the target and reads the sources for itself; a compile
\* that fails writes nothing.
ChildRead == /\ pc = "hashed"
             /\ ~Hit
             /\ LET w == [asof.world EXCEPT !.src = src, !.installed = installed]
                IN  IF Compiles(w) THEN read' = <<Product(w)>> /\ pc' = "read"
                                   ELSE read' = <<>> /\ pc' = "failed"
             /\ UNCHANGED <<installed, processVars, imported, src, seen, dir, memento, asof, changed,
                            result, got, tainted, changes, runs>>

\* It writes the output, or dies while it does.
ChildWrite == /\ pc = "read"
              /\ \/ dir' = read /\ pc' = "wrote"
                 \/ dir' = <<[read[1] EXCEPT !.whole = FALSE]>> /\ pc' = "failed"
              /\ tainted' = TRUE
              /\ UNCHANGED <<installed, processVars, imported, src, seen, memento, asof, changed, read,
                             result, got, changes, runs>>

\* The task returns its output and a memento, which the manager keeps.
Finish == /\ pc = "wrote"
          /\ result' = "built"
          /\ got' = read
          /\ memento' = <<asof>>
          /\ tainted' = ~(asof.upToDate /\ Expected(read))
          /\ pc' = "done"
          /\ UNCHANGED <<installed, processVars, imported, src, seen, dir, asof, changed, read, changes, runs>>

\* Faulty: the memento of the run before outlives a failed one.
FailKept == /\ pc = "failed"
            /\ result' = "failed"
            /\ got' = <<>>
            /\ memento' = memento
            /\ tainted' = FALSE
            /\ pc' = "done"
            /\ UNCHANGED <<installed, processVars, imported, src, seen, dir, asof, changed, read, changes, runs>>

\* The task returns status 1 and no memento.
Fail == /\ pc = "failed"
        /\ result' = "failed"
        /\ got' = <<>>
        /\ memento' = <<>>
        /\ tainted' = FALSE
        /\ pc' = "done"
        /\ UNCHANGED <<installed, processVars, imported, src, seen, dir, asof, changed, read, changes, runs>>

Work == Reuse \/ ChildRead \/ ChildWrite \/ Finish \/ Fail

Next == Edit \/ Install \/ Delete \/ Restart \/ Look \/ Begin \/ Work

Spec == Init /\ [][Next]_vars

-----------------------------------------------------------------------------
(* Properties *)

PC == {"idle", "hashed", "read", "wrote", "failed", "done"}

\* The types of the variables.
TypeOK == /\ installed \in DOMAIN Installations
          /\ plugins \in Plugins /\ discovered \in BOOLEAN
          /\ DOMAIN BuiltinRegistry \subseteq DOMAIN registry
          /\ scans \in 0..3
          /\ imported \in PsscVersions
          /\ src \in Good \cup Bad
          /\ pc \in PC
          /\ dir # <<>> => dir[1].src \in Good /\ dir[1].opt \in Option
          /\ changed \in BOOLEAN /\ tainted \in BOOLEAN
          /\ changes \in 0..MaxChanges /\ runs \in 1..MaxRuns

\* A plugin's target is hashed by the plugin's version alone: what pssc added
\* to its output is then of another version than the one that is installed.
PsscUpgraded == /\ got[1].by.dist # "pssc"
                /\ got[1].pssc # PsscIn(asof.world.installed)

\* What a run reuses is what a compile of the world it hashed would produce:
\* the same sources, options, target and pssc, in a whole file.  The exceptions
\* are what a memento cannot see: the sources or the packages were changed
\* while the memento's own run was between its hash and its compile; a later
\* run was killed after it had written; packages were installed in one of the
\* two processes before its hash but after it had started or scanned; pssc was
\* upgraded under a plugin.
FreshReuse ==
    (result = "reused" /\ ~tainted /\ asof.upToDate /\ ~PsscUpgraded) => Expected(got)

\* What is hashed of the provider of a target.
Provider(t) == IF t.dist = "pssc" THEN <<"pssc">> ELSE <<t.dist, t.version>>

\* The targets found under a name are told apart by what is hashed of them: none
\* that pssc did not ship has the name of one it did (is_builtin() would take it
\* for that), and a distribution brings one for each of its versions.
Identifiable ==
    \A p, q \in Plugins, i, j \in DOMAIN Installations, n \in Targets :
        LET reg == FirstScan[p][i].reg
            other == FirstScan[q][j].reg
        IN  n \in DOMAIN reg \cap DOMAIN other =>
                /\ reg[n].name \in BuiltinNames => reg[n].dist = "pssc"
                /\ Provider(reg[n]) = Provider(other[n]) => reg[n] = other[n]

\* The provider of the target is not known by a version.
Anonymous(w) == w.target \notin DOMAIN Resolved(w) \/ Resolved(w)[w.target].dist = "nometa"

\* A run compiles again only for a cause: the sources, options, packages or
\* environment differ from those of the memento, or the sources' task has
\* run, or the output is gone, or nobody can tell who provides the target, or
\* one of the two processes had started or scanned before an installation.
RebuildHasCause ==
    [][(pc = "hashed" /\ pc' \in {"read", "failed"}) =>
          \/ changed
          \/ memento = <<>>
          \/ dir = <<>>
          \/ memento[1].world # asof.world
          \/ Anonymous(asof.world)
          \/ ~asof.upToDate
          \/ ~memento[1].upToDate]_vars
=============================================================================
