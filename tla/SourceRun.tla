------------------------------- MODULE SourceRun -------------------------------
(***************************************************************************)
(* What a Shine program means: one function of a module run statement by   *)
(* statement on its tree, without blocks or branches.  It is the promise   *)
(* the generated code has to keep.  A value is "zero", "one" or "undef",   *)
(* what a variable holds before its declaration has run; an aggregate is   *)
(* its one part.  `spc` is the node to run next, 0 before the run starts,  *)
(* -1 after it has returned.                                               *)
(***************************************************************************)
EXTENDS ShineProgram

VARIABLES spc, store, result

runVars == <<spc, store, result>>

Known == {"zero", "one"}
Value == Known \cup {"undef"}

\* what an operand may evaluate to
Values(st, u) == CASE u \in Vars           -> {st[u]}
                   [] u \in {"lit", "agg"} -> {"one"}
                   [] u \in {"input", "arg"} -> Known
                   [] u \in {"void", None} -> {"undef"}
                   [] u = "zero"           -> {"zero"}

\* an undefined condition may go either way
Truths(v) == IF v = "undef" THEN BOOLEAN ELSE {v = "one"}

Blank == [v \in Vars |-> "undef"]

RunInit == spc = 0 /\ store = Blank /\ result = "none"

\* a literal that is a statement by itself does nothing
Idle(i) == prog[i].k = "expr" /\ prog[i].u = "lit"

\* the run goes on at node i, or behind the idle statements there
GoesTo(i) == spc' = CHOOSE j \in i..Len(prog) : ~Idle(j) /\ \A k \in i..(j - 1) : Idle(k)

\* until the run starts the tree may still change
Edit == spc = 0 /\ spc' = 0 /\ UNCHANGED <<store, result>>

Start == /\ spc = 0 /\ phase = "done"
         /\ \E f \in 1..Len(prog) :
              /\ prog[f].k = "fn" /\ GoesTo(f + 1)
              /\ IF prog[f].v = None THEN store' = store
                 ELSE \E a \in Known : store' = [store EXCEPT ![prog[f].v] = a]
         /\ UNCHANGED <<prog, open, phase, err, result>>

S == prog[spc]
Fixed == UNCHANGED <<prog, open, phase, err>>
At(kinds) == spc > 0 /\ S.k \in kinds /\ Fixed

Write == /\ At({"decl", "assign", "part"})
         /\ \E w \in Values(store, S.u) : store' = [store EXCEPT ![S.v] = w]
         /\ GoesTo(spc + 1) /\ UNCHANGED result

Evaluate == At({"expr", "endif"}) /\ GoesTo(spc + 1) /\ UNCHANGED <<store, result>>

\* the node at which the list that node i opens ends
EndOf(i) == CHOOSE j \in (i + 1)..Len(prog) :
              /\ prog[j].d = prog[i].d
              /\ \A k \in (i + 1)..(j - 1) : prog[k].d > prog[i].d

\* if and loop: into the list they open, or past its end
Test == /\ At({"if", "loop"})
        /\ \E w \in Values(store, S.u) : \E b \in Truths(w) :
             GoesTo(IF b THEN spc + 1 ELSE EndOf(spc) + 1)
        /\ UNCHANGED <<store, result>>

SkipElse == At({"else"}) /\ GoesTo(EndOf(spc) + 1) /\ UNCHANGED <<store, result>>

\* the innermost loop around the node, or the one the node closes
TheLoop == CHOOSE a \in 1..spc :
             /\ prog[a].k = "loop" /\ EndOf(a) >= spc
             /\ \A c \in (a + 1)..spc : prog[c].k = "loop" => EndOf(c) < spc

Repeat == At({"cont", "endloop"}) /\ spc' = TheLoop /\ UNCHANGED <<store, result>>

LeaveLoop == At({"stop"}) /\ GoesTo(EndOf(TheLoop) + 1) /\ UNCHANGED <<store, result>>

\* r/, or the end of the body, which returns zero where a value is due
Leave == /\ At({"ret", "endfn"})
           /\ result' \in Values(store, IF S.k = "ret" \/ prog[FunctionOf(spc)].t = "void"
                                        THEN S.u ELSE "zero")
           /\ spc' = -1 /\ UNCHANGED store

RunNext == \/ Edit \/ Start \/ Write \/ Evaluate \/ Test \/ SkipElse
           \/ Repeat \/ LeaveLoop \/ Leave

RunSpec == RunInit /\ [][RunNext]_<<prog, open, phase, err, runVars>>
=============================================================================
