------------------------------ MODULE BodyPasses ------------------------------
(***************************************************************************)
(* What happens to one body on its way to a backend that reads registers   *)
(* in statements: the writes are reduced when the model is translated      *)
(* (reg_rmw.reduce), expanded with --reg-rmw=expand (driver.py), and the   *)
(* reads are sequenced when the operation model is built (op_model.py,     *)
(* sequence_reads).                                                        *)
(***************************************************************************)
EXTENDS RegRmw, EffectSeq

CONSTANTS Bodies,    \* the bodies of a model
          Oracles,   \* answers of the device and of the callees
          Members,   \* the locals that stand for members of the component
          FirstTemp, \* the number of the first name _pss_<hint>0 ...
          FirstRmw   \* ... and of _rmw0

ASSUME PassesAssumption == /\ Members \subseteq Locals
                           /\ {FirstTemp, FirstRmw} \subseteq Locals
                           /\ WriteOnly \subseteq DOMAIN Width

VARIABLES source,   \* the body as it is written
          body,     \* what it is now
          before,   \* and was before the last pass
          stage

vars == <<source, body, before, stage>>

Init == /\ source \in Bodies
        /\ body = source
        /\ before = body
        /\ stage = "parsed"

\* reduce(): an error of any body stops the run.
Translate == /\ stage = "parsed"
             /\ IF AnyRefused(body) THEN stage' = "rejected" /\ UNCHANGED body
                                    ELSE stage' = "reduced" /\ body' = Reduce(body)
             /\ before' = body
             /\ UNCHANGED source

ExpandAll == /\ stage = "reduced"
             /\ body' = Expand(body, FirstRmw)
             /\ before' = body
             /\ stage' = "expanded"
             /\ UNCHANGED source

SequenceReads == /\ stage \in {"reduced", "expanded"}
                 /\ LET r == Sequence(body, FirstTemp)
                    IN  IF r.bad THEN stage' = "refused" /\ UNCHANGED body
                                 ELSE stage' = "sequenced" /\ body' = r.ss
                 /\ before' = body
                 /\ UNCHANGED source

Next == Translate \/ ExpandAll \/ SequenceReads

Spec == Init /\ [][Next]_vars

-----------------------------------------------------------------------------
(* Properties *)

\* b does what a may do: the same accesses and calls in the same order, with
\* the same values, and the same members and locals of the model.
Same(a, b) == LET kept == UsesIn(source) \cap Locals
              IN  \A o \in Oracles, f \in IndexOrders : \E g \in IndexOrders :
                      Behaviour(b, o, kept, f) = Behaviour(a, o, kept, g)

RECURSIVE Statements(_), Inside(_)
\* The statements of a body, and the expressions in an expression.
Statements(b) == Range(b) \cup UNION { UNION {Statements(c) : c \in Range(st.b)} : st \in Range(b) }
Inside(e) == {e} \cup UNION {Inside(x) : x \in Range(e.e)}
Expressions(b) == UNION { UNION {Inside(e) : e \in Range(st.e)} : st \in Statements(b) }

Declarations(b) == {st \in Statements(b) : st.k = "decl"}
Declared(b) == {st.n : st \in Declarations(b)}

\* The stages, and the names the passes introduce: none of the model's own,
\* each declared once.
TypeOK == /\ stage \in {"parsed", "rejected", "reduced", "expanded", "refused", "sequenced"}
          /\ UsesIn(body) \subseteq Locals
          /\ Cardinality(Declared(body)) = Cardinality(Declarations(body))
          /\ stage = "sequenced" =>
                (Declared(body) \ Declared(before)) \cap UsesIn(before) = {}

\* The four spellings mean the one read-modify-write of the language: the
\* bits of the named fields, and no others, in one read and one write.
ReductionMeans == stage = "reduced" => Same(source, body)

\* A masked write whose mask is a literal and whose value reads and calls
\* nothing.
PlainWrites(b) == \A e \in Expressions(b) :
                      e.k = "wvm" => IsConst(e.e[1]) /\ \A x \in Inside(e.e[2]) : x.k \notin {"read", "call"}

\* The expansion of a plain masked write does the same, also in a loop or an
\* arm and beside other ones.
ExpansionMeans == (stage = "expanded" /\ PlainWrites(before)) => Same(before, body)

\* An arm of ?: that is wider than the local the choice is read into.
NarrowSelect(b) == \E e \in Expressions(b) :
    /\ e.k = "sel" /\ HasRead(e)
    /\ ReadArms(e) # {}
    /\ \E i \in 2..3 : e.e[i].k # "read" /\ SelectType(e) < Wide

\* Sequencing changes where the reads are and nothing else: not which are
\* made, nor their order among each other and the calls and writes, nor a
\* value, whatever the device answers.
SequencingKeeps == (stage = "sequenced" /\ ~NarrowSelect(before)) => Same(before, body)

\* Every read is a statement, or the whole value of a declaration or of an
\* assignment to a local.
ReadsAreStatements ==
    stage = "sequenced" =>
        \A st \in Statements(body) : \A e \in Range(st.e) :
            \/ ~HasRead(e)
            \/ st.k \in {"expr", "decl", "set"} /\ e.k = "read" /\ \A x \in Range(e.e) : ~HasRead(x)

RECURSIVE Order(_)
\* The reads and calls of an expression as they are evaluated.
Order(e) == FoldLeft(LAMBDA a, x : a \o Order(x), <<>>, e.e)
            \o IF e.k \in {"read", "call"} THEN <<e.k>> ELSE <<>>

\* What the documentation of the pass says it refuses.
Cause(st) ==
    \/ \E e \in Range(st.e) : LET q == Order(e)
                              IN  \E i, j \in DOMAIN q : i < j /\ q[i] = "call" /\ q[j] = "read"
    \/ \E e \in Range(st.e) : \E x \in Inside(e) : x.k = "sel" /\ HasRead(x) /\ ReadArms(x) = {}
    \/ st.k = "put" /\ HasRead(st.e[1])
    \/ st.k = "match" /\ HasRead(st.e[2])
    \/ st.k = "while" /\ HasRead(st.e[1]) /\ st.b[2] # <<>>
    \/ st.k = "repw" /\ HasRead(st.e[1]) /\ \E x \in Statements(st.b[1]) : x.k = "cont" /\
          ~\E l \in Statements(st.b[1]) : l.k \in Loops /\ x \in UNION {Statements(c) : c \in Range(l.b)}

\* A body is refused only for one of the reasons that the pass documents.
RefusedForCause == stage = "refused" => \E st \in Statements(before) : Cause(st)

\* "It changes where reads sit, never which reads happen" (the design note),
\* "keeping C/PSS semantics": the values too.
SelectKeeps == stage = "sequenced" => Same(before, body)
=============================================================================
