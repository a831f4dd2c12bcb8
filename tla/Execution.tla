------------------------------- MODULE Execution -------------------------------
(***************************************************************************)
(* The module the compiler made, run: one function, instruction by         *)
(* instruction over its basic blocks, the way LLVM defines them.  `blk`    *)
(* and `idx` are the instruction to run, `mem` the slots, `reg` the value  *)
(* the last load or call left, `result` what ret returned.                 *)
(*                                                                         *)
(* SourceRun says what the same tree means; the refinement maps the        *)
(* instruction to run to the node of the tree that emitted it.             *)
(***************************************************************************)
EXTENDS Compiler

VARIABLES blk, idx, mem, reg, result

machineVars == <<blk, idx, mem, reg, result>>
allVars == <<vars, machineVars>>

Source == INSTANCE SourceRun WITH
            spc <- IF result # "none" THEN -1
                   ELSE IF blk = NoBlock \/ prog[body[blk][idx].at].k = "fn" THEN 0
                   ELSE body[blk][idx].at,
            store <- mem

Known == {"zero", "one"}

MachineInit == /\ blk = NoBlock /\ idx = 0 /\ reg = "undef" /\ result = "none"
               /\ mem = [v \in Vars |-> "undef"]

\* the slots at the front of an entry block are allocated on entry
Slots(b) == {i \in 1..Len(body[b]) : \A j \in 1..i : body[b][j].k = "alloca"}

Enter == /\ phase = "done" /\ blk = NoBlock /\ result = "none"
         /\ \E f \in Nodes : /\ prog[f].k = "fn"
                             /\ blk' = <<f, "entry">>
                             /\ idx' = Cardinality(Slots(<<f, "entry">>)) + 1
         /\ UNCHANGED <<vars, mem, reg, result>>

Insn == body[blk][idx]
Executing(kinds) == blk # NoBlock /\ Insn.k \in kinds /\ UNCHANGED vars

\* the value an instruction uses: a constant, the argument, or the register
Used(u) == CASE u = "lit"  -> {"one"}
             [] u = "zero" -> {"zero"}
             [] u = "arg"  -> Known
             [] u = None   -> {"undef"}
             [] OTHER      -> {reg}

ExecLoad == /\ Executing({"load"})
            /\ reg' = mem[Insn.v] /\ idx' = idx + 1
            /\ UNCHANGED <<blk, mem, result>>

\* a call may return anything; an aggregate literal is known
ExecCall == /\ Executing({"call"})
            /\ reg' \in CASE Insn.u = "input" -> Known
                          [] Insn.u = "agg"   -> {"one"}
                          [] Insn.u = "void"  -> {"undef"}
            /\ idx' = idx + 1
            /\ UNCHANGED <<blk, mem, result>>

ExecStore == /\ Executing({"store", "pstore"})
             /\ \E w \in Used(Insn.u) : mem' = [mem EXCEPT ![Insn.v] = w]
             /\ idx' = idx + 1
             /\ UNCHANGED <<blk, reg, result>>

\* a branch on an undefined value may go either way
ExecBranch ==
  /\ Executing({"br"})
  /\ \/ Len(Insn.to) = 1 /\ blk' = Insn.to[1]
     \/ Len(Insn.to) = 2 /\ \E w \in Used(Insn.u) :
          \/ w # "zero" /\ blk' = Insn.to[1]
          \/ w # "one"  /\ blk' = Insn.to[2]
  /\ idx' = 1
  /\ UNCHANGED <<mem, reg, result>>

ExecReturn == /\ Executing({"ret"})
              /\ result' \in Used(Insn.u) /\ blk' = NoBlock /\ idx' = 0
              /\ UNCHANGED <<mem, reg>>

Machine == Enter \/ ExecLoad \/ ExecCall \/ ExecStore \/ ExecBranch \/ ExecReturn

Compile == (Parse \/ Check \/ Generate) /\ UNCHANGED machineVars

\* the compiler stopped at an error, there is no function, or the run is over
Over == /\ phase = "failed" \/ result # "none" \/ (phase = "done" /\ prog = <<>>)
        /\ UNCHANGED allVars

RunNext == Compile \/ Machine \/ Over

RunSpec == Init /\ MachineInit /\ [][RunNext]_allVars /\ WF_allVars(RunNext)

-----------------------------------------------------------------------------
(* Properties *)

\* The generated blocks do, step for step, what the source says: the same
\* statements in the same order, the same values in the same variables,
\* the same result, whatever the shape of the control flow (genStmt, genIf,
\* genLoop, defineFn's default return), and nothing else.
RunsAsWritten == Source!RunSpec

\* Control always has an instruction to run: it never falls off the end of a
\* block (a block without terminator), nor uses a slot of another function.
AlwaysAnInstruction ==
  blk # NoBlock => blk \in DOMAIN body /\ idx \in 1..Len(body[blk])

\* A run that does not return passes through the test of a source loop again
\* and again: the branches add no cycle of their own.
OnlyLoopsRunForever ==
  []<>(\/ blk = NoBlock
       \/ blk # NoBlock /\ prog[Insn.at].k = "loop")
=============================================================================
