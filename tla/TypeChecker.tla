------------------------------ MODULE TypeChecker ------------------------------
(***************************************************************************)
(* class TypeChecker (src/typecheck.cpp): one walk over the tree, one      *)
(* action per node, which stops at the first error by throwing.  `tvars`   *)
(* is vars_, one flat scope per function; `loopDepth` is loopDepth_; `tfn` *)
(* is currentFn_ and `tpc` the node the recursion has reached.             *)
(***************************************************************************)
EXTENDS ShineProgram

VARIABLES tpc, tfn, tvars, loopDepth

checkerVars == <<tpc, tfn, tvars, loopDepth>>

VarInfo == [t : Types, m : BOOLEAN]

Bind(env, v, info) == [w \in DOMAIN env \cup {v} |-> IF w = v THEN info ELSE env[w]]

NoVars == [v \in {} |-> None]

\* mutant of ParamEnv: parameters enter vars_ as mutable
ParamEnvMutable(h) == IF h.v = None THEN NoVars
                      ELSE Bind(NoVars, h.v, [t |-> "int", m |-> TRUE])

\* vars_ at the start of a function: its parameters, none of them mutable
ParamEnv(h) == IF h.v = None THEN NoVars
               ELSE Bind(NoVars, h.v, [t |-> "int", m |-> FALSE])

CheckerInit == tpc = 1 /\ tfn = 0 /\ tvars = NoVars /\ loopDepth = 0

-----------------------------------------------------------------------------
(* Expressions *)

Unbound(env, u) == u \in Vars \ DOMAIN env

\* inferExpr on an operand that is bound
TypeOf(env, u) == CASE u \in Vars             -> env[u].t
                    [] u \in {"lit", "input"} -> "int"
                    [] u = "agg"              -> "agg"
                    [] u = "void"             -> "void"

\* checkAssignable and expectType: what they throw, "ok" if they return
Assignable(env, u, want) ==
  IF Unbound(env, u) THEN "UndeclaredIdentifier"
  ELSE IF TypeOf(env, u) # want THEN "TypeMismatch" ELSE "ok"

-----------------------------------------------------------------------------
(* Statements *)

Now == prog[tpc]

Checking(kinds) == phase = "check" /\ tpc \in 1..Len(prog) /\ Now.k \in kinds

Verdict(code) == IF code = "ok"
                 THEN tpc' = tpc + 1 /\ UNCHANGED mainVars
                 ELSE tpc' = tpc /\ Throw("check", code)

CheckFn == /\ Checking({"fn"})
           /\ tfn' = tpc /\ tvars' = ParamEnv(Now) /\ tpc' = tpc + 1
           /\ UNCHANGED <<loopDepth, mainVars>>

\* mutant of DeclVerdict: without the lookup that finds a redeclaration
DeclVerdictShadows ==
  IF Now.t = "void" THEN "VoidVariable" ELSE Assignable(tvars, Now.u, Now.t)

DeclVerdict ==
  IF Now.v \in DOMAIN tvars THEN "VariableRedeclared"
  ELSE IF Now.t = "void" THEN "VoidVariable" ELSE Assignable(tvars, Now.u, Now.t)

CheckVarDecl ==
  /\ Checking({"decl"})
  /\ Verdict(DeclVerdict)
  /\ tvars' = IF DeclVerdict = "ok"
              THEN Bind(tvars, Now.v, [t |-> Now.t, m |-> Now.m]) ELSE tvars
  /\ UNCHANGED <<tfn, loopDepth>>

CheckAssign ==
  /\ Checking({"assign"})
  /\ Verdict(IF Now.v \notin DOMAIN tvars THEN "UndeclaredIdentifier"
             ELSE IF ~tvars[Now.v].m THEN "ImmutableAssign"
             ELSE Assignable(tvars, Now.u, tvars[Now.v].t))
  /\ UNCHANGED <<tfn, tvars, loopDepth>>

\* FieldAssignStmt and IndexAssignStmt look at the type of the target only
CheckPartAssign ==
  /\ Checking({"part"})
  /\ Verdict(IF Unbound(tvars, Now.v) THEN "UndeclaredIdentifier"
             ELSE IF TypeOf(tvars, Now.v) # "agg" THEN "NotAnAggregate"
             ELSE Assignable(tvars, Now.u, Now.t))
  /\ UNCHANGED <<tfn, tvars, loopDepth>>

\* mutant of CheckExpr: an expression statement is not looked at
CheckExprNot == Checking({"expr"}) /\ Verdict("ok") /\ UNCHANGED <<tfn, tvars, loopDepth>>

CheckExpr ==
  /\ Checking({"expr"})
  /\ Verdict(IF Unbound(tvars, Now.u) THEN "UndeclaredIdentifier" ELSE "ok")
  /\ UNCHANGED <<tfn, tvars, loopDepth>>

\* mutant of CheckReturn: `r/;` is not compared with the return type
CheckReturnAnyway ==
  /\ Checking({"ret"})
  /\ Verdict(IF Now.u # None THEN Assignable(tvars, Now.u, prog[tfn].t) ELSE "ok")
  /\ UNCHANGED <<tfn, tvars, loopDepth>>

CheckReturn ==
  /\ Checking({"ret"})
  /\ Verdict(IF Now.u # None THEN Assignable(tvars, Now.u, prog[tfn].t)
             ELSE IF prog[tfn].t # "void" THEN "ReturnTypeMismatch" ELSE "ok")
  /\ UNCHANGED <<tfn, tvars, loopDepth>>

CondVerdict == LET e == Assignable(tvars, Now.u, "int")
               IN  IF e = "TypeMismatch" THEN "ConditionType" ELSE e

CheckIf == /\ Checking({"if"})
           /\ Verdict(CondVerdict)
           /\ UNCHANGED <<tfn, tvars, loopDepth>>

CheckLoop == /\ Checking({"loop"})
             /\ Verdict(CondVerdict)
             /\ loopDepth' = IF CondVerdict = "ok" THEN loopDepth + 1 ELSE loopDepth
             /\ UNCHANGED <<tfn, tvars>>

\* mutant of CheckEndLoop: loopDepth_ is not decremented
CheckEndLoopLeaks == /\ Checking({"endloop"})
                     /\ tpc' = tpc + 1
                     /\ UNCHANGED <<tfn, tvars, loopDepth, mainVars>>

CheckEndLoop == /\ Checking({"endloop"})
                /\ loopDepth' = loopDepth - 1 /\ tpc' = tpc + 1
                /\ UNCHANGED <<tfn, tvars, mainVars>>

CheckBreak == /\ Checking({"stop"})
              /\ Verdict(IF loopDepth = 0 THEN "BreakOutsideLoop" ELSE "ok")
              /\ UNCHANGED <<tfn, tvars, loopDepth>>

CheckContinue == /\ Checking({"cont"})
                 /\ Verdict(IF loopDepth = 0 THEN "ContinueOutsideLoop" ELSE "ok")
                 /\ UNCHANGED <<tfn, tvars, loopDepth>>

\* the end of a list that needs no work: checkStmtList or checkFn returns
CheckListEnd == /\ Checking({"else", "endif", "endfn"})
                /\ tpc' = tpc + 1
                /\ UNCHANGED <<tfn, tvars, loopDepth, mainVars>>

\* check() returns to main, which goes on to the code generator
CheckDone == /\ phase = "check" /\ tpc > Len(prog)
             /\ phase' = "gen"
             /\ UNCHANGED <<checkerVars, err>>

CheckerNext == \/ CheckFn \/ CheckVarDecl \/ CheckAssign \/ CheckPartAssign
               \/ CheckExpr \/ CheckReturn \/ CheckIf \/ CheckLoop
               \/ CheckEndLoop \/ CheckBreak \/ CheckContinue
               \/ CheckListEnd \/ CheckDone

CheckerTypeOK == /\ tpc \in Nat \ {0}
                 /\ tfn \in Nat
                 /\ DOMAIN tvars \subseteq Vars
                 /\ \A v \in DOMAIN tvars : tvars[v] \in VarInfo
                 /\ loopDepth \in Int
=============================================================================
