------------------------------ MODULE DriverProofs ------------------------------
(***************************************************************************)
(* Proofs about runs of shinec (module Driver), for any number of runs,    *)
(* command lines, sources and edits.                                       *)
(***************************************************************************)
EXTENDS Driver, WellFoundedInduction, SequenceTheorems, TLAPS

Running == {"read", "explain", "open", "write", "rsp", "fill", "spawn", "link",
            "linked", "unlinked"}
Steps == Running \cup {"exited", "killed"}

\* the steps of a run whose source compiles, and those inside link()
Ahead   == {"open", "write", "rsp", "fill", "spawn", "link", "linked", "unlinked"}
Linking == {"rsp", "fill", "spawn", "link", "linked", "unlinked"}

\* the ones between opening the response file and having removed it
Using == {"fill", "spawn", "link", "linked", "unlinked", "killed"}

-----------------------------------------------------------------------------
(* The inductive invariant *)

\* what a run has in memory where it stands
MemoryOK == \A p \in Run :
  /\ at[p] = "read" => mem[p] = Absent
  /\ at[p] \in Ahead \/ code[p] = 0 => Accepted(mem[p])
  /\ at[p] = "explain" => ~Accepted(mem[p]) /\ cmd[p].in # NoPath
  /\ cmd[p].in = NoPath => mem[p] = Absent /\ code[p] \in {-1, 1}
  /\ mem[p].k = "source" => mem[p].of[1] = cmd[p].in

\* where a run stands, by its command line and platform
PlaceOK == \A p \in Run :
  /\ at[p] \in Linking => Links(p)
  /\ at[p] \in Linking \ {"link"} => platform = "bundled"
  /\ code[p] # -1 <=> at[p] = "exited"

\* a source is a file that some run was given, and tells what file it is
FilesOK == \A f \in Files :
  file[f].k = "source" => /\ f \in Path /\ file[f].of[1] = f
                          /\ \E q \in Run : f = cmd[q].in

\* the linker arguments of a run whose source compiles
ArgsOf(r, a) == Accepted(mem[r]) /\ a = Args(ObjPath(r), Out(r))

\* a response file names the files of one run, and so do a linker's arguments,
\* which without a response file are those of the run that started it
ArgsOK ==
  /\ file[Rsp].k = "response" => \E r \in Run : Links(r) /\ ArgsOf(r, file[Rsp])
  /\ \A q \in Run : args[q].k = "response" =>
       \/ ArgsOf(q, args[q])
       \/ platform = "bundled" /\ \E r \in Run : Links(r) /\ ArgsOf(r, args[q])

\* who will remove the response file
RspOK == file[Rsp] # Absent => /\ platform = "bundled"
                               /\ \E p \in Run : at[p] \in Using

\* the object of a run that links
Object(p) == C("object", mem[p].of, NoPath, NoPath)

\* a run whose files nobody else uses
Alone(p) == Apart(p) /\ LinksAlone(p) /\ Distinct(p)

\* what is in the files of such a run where it stands
ProgressOK == \A p \in Run : Alone(p) =>
  /\ at[p] = "write" => file[ObjPath(p)] = Partial
  /\ at[p] \in Linking => file[ObjPath(p)] \in {Partial, Object(p)}
  /\ at[p] = "spawn" => file[Rsp] = Args(ObjPath(p), Out(p))
  /\ at[p] = "link" => args[p] = Args(ObjPath(p), Out(p))
  /\ at[p] = "linked" \/ code[p] = 0 => file[Out(p)] = Product(p)

\* the files of a run whose source is not known to compile
UntouchedOK == \A p \in Run : Apart(p) /\ cmd[p].in # Out(p) /\ ~Accepted(mem[p]) =>
  IF cmd[p].in # NoPath
  THEN /\ file[Out(p)] = OldOutput
       /\ file[cmd[p].in].k = "source"
       /\ mem[p] # Absent => /\ mem[p].k = "source"
                             /\ file[cmd[p].in].of[2] >= mem[p].of[2]
       /\ mem[p] # Absent /\ at[p] = "exited" =>
            /\ shown[p].k = "source" /\ shown[p].of[1] = cmd[p].in
            /\ shown[p].of[2] >= mem[p].of[2]
  ELSE mem[p] = Absent

\* a command is what its line says
CommandOK == cmd = [p \in Run |-> Parsed(argv[p])]

RunInv == /\ TypeOK /\ CommandOK /\ MemoryOK /\ PlaceOK /\ FilesOK /\ ArgsOK /\ RspOK
          /\ ProgressOK /\ UntouchedOK /\ SourcesKept
-----------------------------------------------------------------------------
(* Words, files and what is in them *)

\* No path is a flag, the response file is neither, and no word is empty.
LEMMA Words ==
  /\ NoPath \notin Word /\ Rsp \notin Word /\ NoPath # Rsp
  /\ Path \cap Flags = {} /\ Dash \in Path /\ Option("-32") # Option("-c")
  /\ Path \subseteq Word /\ Word \subseteq Files /\ Rsp \in Files
  /\ \A s \in Stem \cup {"-o"}, e \in Extensions : <<s, e>> \in Path
  /\ \A s, e : <<s, e>> # Rsp \/ e = "rsp"
<1>1. Option("-32") = <<None, "-32">> /\ Option("-c") = <<None, "-c">>
  BY DEF Option
<1>2. \A f \in Path : /\ f[1] \in Stem \cup {"-o"} /\ f[2] \in Extensions
                     /\ f = <<f[1], f[2]>> /\ f[1] # None
  BY DriverAssumption DEF Path
<1>3. \A w \in Flags : w[1] = None /\ w[2] \in {"-32", "-c"}
  BY <1>1 DEF Flags
<1>4. NoPath[1] = None /\ NoPath[2] = "" /\ Rsp[1] = None /\ Rsp[2] = "rsp"
  BY DEF NoPath, Rsp
<1>5. NoPath \notin Word /\ Rsp \notin Word /\ NoPath # Rsp /\ Path \cap Flags = {}
  BY <1>2, <1>3, <1>4 DEF Word
<1>6. \A s \in Stem \cup {"-o"}, e \in Extensions : <<s, e>> \in Path
  BY DEF Path
<1>7. \A s, e : <<s, e>> # Rsp \/ e = "rsp"
  BY DEF Rsp
<1>8. Dash \in Path
  BY <1>6 DEF Dash, Extensions
<1>9. Option("-32")[2] # Option("-c")[2]
  BY <1>1
<1> QED BY <1>5, <1>6, <1>7, <1>8, <1>9 DEF Word, Files

\* The contents that runs put into files, and what they hold.
LEMMA Contents ==
  /\ \A k \in Kinds, of \in Made, obj, exe \in Word \cup {NoPath} : C(k, of, obj, exe) \in Content
  /\ \A k, of, obj, exe : /\ C(k, of, obj, exe).k = k /\ C(k, of, obj, exe).of = of
                          /\ C(k, of, obj, exe).obj = obj /\ C(k, of, obj, exe).exe = exe
  /\ Absent \in Content /\ Partial \in Content /\ OldOutput \in Content /\ Empty \in Content
  /\ Absent.k = "absent" /\ Partial.k = "partial" /\ OldOutput.k = "exe" /\ Empty.k = "empty"
  /\ \A obj, exe : /\ Args(obj, exe).k = "response"
                   /\ Args(obj, exe).obj = obj /\ Args(obj, exe).exe = exe
  /\ \A obj, exe \in Word \cup {NoPath} : Args(obj, exe) \in Content
<1>1. \A k \in Kinds, of \in Made, obj, exe \in Word \cup {NoPath} : C(k, of, obj, exe) \in Content
  BY DEF C, Content
<1>2. Nothing \in Made
  BY DriverAssumption DEF Nothing, Made
<1>3. {"absent", "partial", "empty", "source", "object", "object32", "exe", "response"} \subseteq Kinds
  BY DEF Kinds
<1>4. Absent \in Content /\ Partial \in Content /\ OldOutput \in Content /\ Empty \in Content
  BY <1>1, <1>2, <1>3 DEF Absent, Partial, OldOutput, Empty
<1>5. \A obj, exe \in Word \cup {NoPath} : Args(obj, exe) \in Content
  BY <1>1, <1>2, <1>3 DEF Args
<1> QED BY <1>1, <1>4, <1>5 DEF C, Absent, Partial, OldOutput, Empty, Args

\* What a run reads from a file.
LEMMA ReadContent ==
  ASSUME NEW x \in Content, NEW y \in Readings(x)
  PROVE  /\ y \in Content /\ (x # Absent => y # Absent)
         /\ x.k \in {"source", "object", "object32", "exe", "response"} => y = x
         /\ y.k = "source" => y = x
  BY Contents DEF Readings

\* What a field of a content is.
LEMMA ContentFields ==
  ASSUME NEW x \in Content
  PROVE  /\ x.k \in Kinds /\ x.of \in Made /\ x.obj \in Word \cup {NoPath}
         /\ x.exe \in Word \cup {NoPath}
         /\ x.of[1] \in Path \cup {NoPath} /\ x.of[2] \in 0..MaxVersion
         /\ x.of = <<x.of[1], x.of[2]>>
<1>1. /\ x.k \in Kinds /\ x.of \in Made /\ x.obj \in Word \cup {NoPath}
      /\ x.exe \in Word \cup {NoPath}
  BY DEF Content
<1> QED BY <1>1 DEF Made

\* A run with an input, which is a path, has names for its outputs.
LEMMA Names ==
  ASSUME TypeOK, NEW p \in Run, cmd[p].in # NoPath
  PROVE  cmd[p].in \in Path /\ Out(p) \in Word /\ ObjPath(p) \in Word
<1>0. cmd[p].in \in Path
  BY DEF TypeOK, Command
<1>1. cmd[p].out \in Word \cup {NoPath}
  BY DEF TypeOK, Command
<1>2. cmd[p].in[1] \in Stem \cup {"-o"}
  BY <1>0 DEF Path
<1>3. \A e \in {"", "o", "exe"} : <<cmd[p].in[1], e>> \in Word
  BY <1>2, Words DEF Extensions
<1>4. Out(p) \in Word
  BY <1>1, <1>3 DEF Out, StripExt
<1>5. ObjPath(p) \in Word
  BY <1>3, <1>4 DEF ObjPath, StripExt
<1> QED BY <1>0, <1>4, <1>5

\* A text that compiles is that of an input.
LEMMA Outputs ==
  ASSUME TypeOK, MemoryOK, NEW p \in Run, Accepted(mem[p])
  PROVE  /\ cmd[p].in \in Path
         /\ Out(p) \in Word /\ ObjPath(p) \in Word
         /\ Args(ObjPath(p), Out(p)) \in Content
<1>1. cmd[p].in # NoPath
  BY Contents DEF MemoryOK, Accepted
<1> QED BY <1>1, Names, Contents

\* Whatever a linker is told to link belongs to a run whose source compiles.
LEMMA LinkedFiles ==
  ASSUME TypeOK, MemoryOK, ArgsOK, NEW q \in Run, args[q].k = "response"
  PROVE  \E r \in Run : /\ Accepted(mem[r])
                        /\ args[q].obj = ObjPath(r) /\ args[q].exe = Out(r)
                        /\ ObjPath(r) \in Word /\ Out(r) \in Word
                        /\ r = q \/ (platform = "bundled" /\ Links(r))
<1>1. \E r \in Run : /\ ArgsOf(r, args[q])
                     /\ r = q \/ (platform = "bundled" /\ Links(r))
  BY DEF ArgsOK
<1> QED BY <1>1, Outputs, Contents DEF ArgsOf

-----------------------------------------------------------------------------
(* What no step changes *)

\* A command line, and what is made of it, stays as it is.
LEMMA CommandKept ==
  ASSUME [Next]_vars
  PROVE  platform' = platform /\ argv' = argv /\ cmd' = cmd
BY DEF Next, Step, Usage, Read, Explain, Open, Write, OpenRsp, FillRsp, Spawn, Link, Remove,
       Kill, Edit, Over, vars, command

\* So the names of the files of a run stay, and whom it shares them with.
LEMMA NamesKept ==
  ASSUME [Next]_vars
  PROVE  \A p \in Run : /\ Out(p)' = Out(p) /\ ObjPath(p)' = ObjPath(p)
                        /\ Links(p)' <=> Links(p)
                        /\ ObjectOnly(p)' <=> ObjectOnly(p)
                        /\ Apart(p)' <=> Apart(p)
                        /\ LinksAlone(p)' <=> LinksAlone(p)
                        /\ Distinct(p)' <=> Distinct(p)
                        /\ Alone(p)' <=> Alone(p)
<1>1. platform' = platform /\ cmd' = cmd
  BY CommandKept
<1>2. \A p \in Run : ObjectOnly(p)' <=> ObjectOnly(p)
  BY <1>1 DEF ObjectOnly
<1>3. \A p \in Run : /\ Out(p)' = Out(p) /\ ObjPath(p)' = ObjPath(p)
                     /\ Links(p)' <=> Links(p)
  BY <1>1, <1>2 DEF Out, ObjPath, Links
<1>4. \A p \in Run : /\ Apart(p)' <=> Apart(p)
                     /\ LinksAlone(p)' <=> LinksAlone(p)
                     /\ Distinct(p)' <=> Distinct(p)
  BY <1>1, <1>3 DEF Apart, LinksAlone, Distinct
<1> QED BY <1>2, <1>3, <1>4 DEF Alone

\* The actions of a run, one by one.
LEMMA Actions ==
  ASSUME [Next]_vars
  PROVE  \/ \E p \in Run :
              \/ Usage(p) \/ Read(p) \/ Explain(p) \/ Open(p) \/ Write(p)
              \/ OpenRsp(p) \/ FillRsp(p) \/ Spawn(p) \/ Link(p) \/ Remove(p) \/ Kill(p)
         \/ Edit \/ UNCHANGED vars
BY DEF Next, Step, Over

-----------------------------------------------------------------------------
(* Types *)

\* A step keeps the types.
LEMMA TypeStep ==
  ASSUME TypeOK, MemoryOK, ArgsOK, [Next]_vars
  PROVE  TypeOK'
<1> USE DEF TypeOK
<1>0. platform' \in Platforms /\ argv' \in [Run -> CommandLines] /\ cmd' \in [Run -> Command]
  BY CommandKept
<1> DEFINE Typed == /\ file' \in [Files -> Content]
                    /\ at' \in [Run -> {"read", "explain", "open", "write", "rsp", "fill",
                                        "spawn", "link", "linked", "unlinked", "exited",
                                        "killed"}]
                    /\ mem' \in [Run -> Content] /\ args' \in [Run -> Content]
                    /\ shown' \in [Run -> Content]
                    /\ code' \in [Run -> {-1, 0, 1, 3}]
<1>1. ASSUME NEW p \in Run, Usage(p) PROVE Typed
  BY <1>1 DEF Usage, Exit
<1>f. \A p \in Run : Found(p) => file[cmd[p].in] \in Content
  BY Words DEF Command, Found
<1>2. ASSUME NEW p \in Run, Read(p) PROVE Typed
  <2>1. PICK y \in Readings(file[cmd[p].in]) :
              mem' = [mem EXCEPT ![p] = y] /\ Goto(p, IF Accepted(y) THEN "open" ELSE "explain")
    BY <1>2 DEF Read
  <2>2. y \in Content
    BY <1>2, <1>f, <2>1, ReadContent DEF Read
  <2> QED BY <1>2, <2>1, <2>2 DEF Read, Goto
<1>i. \A p \in Run : cmd[p].in \in Path \cup {NoPath}
  BY DEF Command
<1>3. ASSUME NEW p \in Run, Explain(p) PROVE Typed
  <2>1. cmd[p].in \in Files
    BY <1>3, <1>i, Words DEF Explain, MemoryOK
  <2> QED BY <1>3, <2>1 DEF Explain, Exit
<1>m. \A p \in Run : mem[p].of \in Made
  BY ContentFields
<1>p. \A f, c : c \in Content => [file EXCEPT ![f] = c] \in [Files -> Content]
  OBVIOUS
<1>c. \A p \in Run, k \in Kinds : C(k, mem[p].of, NoPath, NoPath) \in Content
  BY <1>m, Contents
<1>k. {"object", "object32", "exe"} \subseteq Kinds
  BY DEF Kinds
<1>4. ASSUME NEW p \in Run, Open(p) PROVE Typed
  BY <1>4, <1>p, Contents DEF Open, Put, Goto, Exit
<1>a. \A p \in Run : at[p] \in Ahead => Args(ObjPath(p), Out(p)) \in Content
  BY Outputs DEF MemoryOK
<1>5. ASSUME NEW p \in Run, Write(p) PROVE Typed
  <2>1. at[p] \in Ahead
    BY <1>5 DEF Write, Ahead
  <2>2. args' \in [Run -> Content]
    BY <1>5, <2>1, <1>a DEF Write
  <2>3. file' \in [Files -> Content]
    BY <1>5, <1>p, <1>c, <1>k, Contents DEF Write, Put
  <2>4. \/ Exit(p, 0) \/ Exit(p, 1)
        \/ Goto(p, IF platform = "bundled" THEN "rsp" ELSE "link")
    BY <1>5 DEF Write
  <2> QED BY <1>5, <2>2, <2>3, <2>4 DEF Write, Exit, Goto
<1>6. ASSUME NEW p \in Run, OpenRsp(p) PROVE Typed
  BY <1>6, <1>p, Contents DEF OpenRsp, Put, Goto, Exit
<1>7. ASSUME NEW p \in Run, FillRsp(p) PROVE Typed
  <2>1. at[p] \in Ahead
    BY <1>7 DEF FillRsp, Ahead
  <2> QED BY <1>7, <2>1, <1>a, <1>p DEF FillRsp, Put, Goto
<1>8. ASSUME NEW p \in Run, Spawn(p) PROVE Typed
  <2>1. file[Rsp] \in Content
    BY Words
  <2> QED BY <1>8, <2>1 DEF Spawn, Goto
<1>9. ASSUME NEW p \in Run, Link(p) PROVE Typed
  <2>1. args[p] \in Content
    OBVIOUS
  <2>2. args[p].k = "response" /\ file[args[p].obj].k = "object" =>
          file[args[p].obj].of \in Made
    BY LinkedFiles, Words, ContentFields
  <2>3. args[p].k = "response" /\ file[args[p].obj].k = "object" =>
          C("exe", file[args[p].obj].of, NoPath, NoPath) \in Content
    BY <2>2, <1>k, Contents
  <2>4. file' \in [Files -> Content]
    <3>1. \/ /\ args[p].k = "response" /\ file[args[p].obj].k = "object"
             /\ Put(args[p].exe, C("exe", file[args[p].obj].of, NoPath, NoPath))
          \/ file' = file
          \/ Put(args[p].exe, Absent)
      BY <1>9 DEF Link
    <3>2. Absent \in Content
      BY Contents
    <3> QED BY <2>3, <3>1, <3>2, <1>p DEF Put
  <2>5. Returned(p, TRUE) \/ Returned(p, FALSE)
    BY <1>9 DEF Link
  <2>6. Goto(p, "linked") \/ Goto(p, "unlinked") \/ Exit(p, 0) \/ Exit(p, 1)
    BY <2>5 DEF Returned
  <2>7. mem' = mem /\ shown' = shown /\ args' = args
    BY <1>9 DEF Link
  <2> QED BY <2>4, <2>6, <2>7 DEF Goto, Exit
<1>10. ASSUME NEW p \in Run, Remove(p) PROVE Typed
  BY <1>10, <1>p, Contents DEF Remove, Put, Exit
<1>11. ASSUME NEW p \in Run, Kill(p) PROVE Typed
  BY <1>11 DEF Kill, Goto
<1>12. ASSUME Edit PROVE Typed
  <2>1. PICK f \in Path : /\ file[f].k = "source" /\ file[f].of[2] < MaxVersion
                         /\ Put(f, [file[f] EXCEPT !.of[2] = @ + 1])
    BY <1>12 DEF Edit
  <2>2. file[f] \in Content
    BY Words
  <2>3. [file[f] EXCEPT !.of[2] = @ + 1] \in Content
    <3>1. /\ file[f].of[1] \in Path \cup {NoPath} /\ file[f].of[2] \in 0..MaxVersion
          /\ file[f].of = <<file[f].of[1], file[f].of[2]>>
      BY <2>2, ContentFields
    <3>2. file[f].of[2] + 1 \in 0..MaxVersion
      BY <3>1, <2>1, DriverAssumption
    <3>3. [file[f].of EXCEPT ![2] = @ + 1] = <<file[f].of[1], file[f].of[2] + 1>>
      BY <3>1
    <3>4. [file[f].of EXCEPT ![2] = @ + 1] \in Made
      BY <3>1, <3>2, <3>3 DEF Made
    <3> QED BY <2>2, <3>4 DEF Content
  <2> QED BY <1>12, <2>1, <2>3, <1>p DEF Edit, Put
<1>13. ASSUME UNCHANGED vars PROVE Typed
  BY <1>13 DEF vars
<1>14. Typed
  BY Actions, <1>1, <1>2, <1>3, <1>4, <1>5, <1>6, <1>7, <1>8, <1>9, <1>10, <1>11, <1>12, <1>13
<1> QED BY <1>0, <1>14
-----------------------------------------------------------------------------
(* Which files a step writes *)

\* A run writes its own outputs, the response file, or what the response file
\* tells its linker to write; it never writes a source.
LEMMA Footprint ==
  ASSUME TypeOK, MemoryOK, ArgsOK, NEW q \in Run, Step(q) \/ Kill(q), NEW f \in Files
  PROVE  \/ file'[f] = file[f]
         \/ /\ f = Rsp /\ at[q] \in Linking
            /\ file'[f].k \in {"absent", "partial", "response"}
         \/ /\ f \in Word /\ file'[f].k # "source"
            /\ \E r \in Run : /\ Accepted(mem[r]) /\ f \in {ObjPath(r), Out(r)}
                              /\ r = q \/ (platform = "bundled" /\ Links(r) /\ at[q] = "link")
<1> DEFINE Own == /\ f \in Word /\ file'[f].k # "source"
                  /\ \E r \in Run :
                       /\ Accepted(mem[r]) /\ f \in {ObjPath(r), Out(r)}
                       /\ r = q \/ (platform = "bundled" /\ Links(r) /\ at[q] = "link")
           Response == f = Rsp /\ at[q] \in Linking
                       /\ file'[f].k \in {"absent", "partial", "response"}
<1> SUFFICES file'[f] = file[f] \/ Response \/ Own
  OBVIOUS
<1>p. \A g, c : file' = [file EXCEPT ![g] = c] => file'[f] = (IF f = g THEN c ELSE file[f])
  BY DEF TypeOK
<1>a. at[q] \in Ahead => Accepted(mem[q]) /\ ObjPath(q) \in Word
  BY Outputs DEF MemoryOK
<1>1. CASE UNCHANGED file
  BY <1>1
<1>2. CASE Open(q) \/ Write(q)
  <2>1. at[q] \in Ahead
    BY <1>2 DEF Open, Write, Ahead
  <2>2. \/ UNCHANGED file
        \/ \E c : c.k \in {"partial", "object", "object32"} /\ Put(ObjPath(q), c)
    <3>1. CASE Open(q)
      BY <3>1, Contents DEF Open
    <3>2. CASE Write(q)
      <4> DEFINE object == C(IF cmd[q].b32 THEN "object32" ELSE "object", mem[q].of, NoPath, NoPath)
      <4>1. object.k \in {"object", "object32"}
        BY Contents
      <4>2. UNCHANGED file \/ Put(ObjPath(q), object) \/ Put(ObjPath(q), Partial)
        BY <3>2 DEF Write
      <4> HIDE DEF object
      <4> QED BY <4>1, <4>2, Contents
    <3> QED BY <1>2, <3>1, <3>2
  <2>3. CASE \E c : c.k \in {"partial", "object", "object32"} /\ Put(ObjPath(q), c)
    <3>1. PICK c : c.k \in {"partial", "object", "object32"} /\ Put(ObjPath(q), c)
      BY <2>3
    <3>2. file'[f] = (IF f = ObjPath(q) THEN c ELSE file[f])
      BY <3>1, <1>p DEF Put
    <3>3. CASE f = ObjPath(q)
      <4>1. file'[f].k # "source"
        BY <3>1, <3>2, <3>3
      <4> QED BY <2>1, <1>a, <3>3, <4>1
    <3> QED BY <3>2, <3>3
  <2> QED BY <2>2, <2>3
<1>3. CASE OpenRsp(q) \/ FillRsp(q) \/ Remove(q)
  <2>1. at[q] \in Linking
    BY <1>3 DEF OpenRsp, FillRsp, Remove, Linking
  <2>2. \/ UNCHANGED file
        \/ \E c : c.k \in {"absent", "partial", "response"} /\ Put(Rsp, c)
    BY <1>3, Contents DEF OpenRsp, FillRsp, Remove
  <2>3. CASE \E c : c.k \in {"absent", "partial", "response"} /\ Put(Rsp, c)
    <3>1. PICK c : c.k \in {"absent", "partial", "response"} /\ Put(Rsp, c)
      BY <2>3
    <3>2. file'[f] = (IF f = Rsp THEN c ELSE file[f])
      BY <3>1, <1>p DEF Put
    <3>3. CASE f = Rsp
      <4>1. file'[f].k \in {"absent", "partial", "response"}
        BY <3>1, <3>2, <3>3
      <4> QED BY <2>1, <3>3, <4>1
    <3> QED BY <3>2, <3>3
  <2> QED BY <2>2, <2>3
<1>4. CASE Link(q)
  <2>1. \/ UNCHANGED file
        \/ /\ args[q].k = "response"
           /\ \E c : c.k \in {"absent", "exe"} /\ Put(args[q].exe, c)
    <3> DEFINE linked == C("exe", file[args[q].obj].of, NoPath, NoPath)
    <3>1. linked.k \in {"absent", "exe"} /\ Absent.k \in {"absent", "exe"}
      BY Contents
    <3>2. \/ UNCHANGED file
          \/ args[q].k = "response" /\ Put(args[q].exe, linked)
          \/ args[q].k = "response" /\ Put(args[q].exe, Absent)
      BY <1>4 DEF Link
    <3> HIDE DEF linked
    <3> QED BY <3>1, <3>2
  <2>2. CASE args[q].k = "response"
    <3>1. PICK r \in Run : /\ Accepted(mem[r])
                           /\ args[q].obj = ObjPath(r) /\ args[q].exe = Out(r)
                           /\ ObjPath(r) \in Word /\ Out(r) \in Word
                           /\ r = q \/ (platform = "bundled" /\ Links(r))
      BY <2>2, LinkedFiles
    <3>2. at[q] = "link"
      BY <1>4 DEF Link
    <3>3. ASSUME NEW c, c.k \in {"absent", "exe"}, Put(args[q].exe, c)
          PROVE  file'[f] = file[f] \/ Own
      <4>1. file'[f] = (IF f = Out(r) THEN c ELSE file[f])
        BY <3>1, <3>3, <1>p DEF Put
      <4>2. CASE f = Out(r)
        <5>1. file'[f].k # "source"
          BY <3>3, <4>1, <4>2
        <5> QED BY <3>1, <3>2, <4>2, <5>1
      <4> QED BY <4>1, <4>2
    <3> QED BY <3>3, <2>1
  <2> QED BY <2>1, <2>2
<1>5. \/ UNCHANGED file \/ Open(q) \/ Write(q) \/ OpenRsp(q) \/ FillRsp(q) \/ Remove(q) \/ Link(q)
  BY DEF Step, Usage, Read, Explain, Spawn, Kill
<1> QED BY <1>1, <1>2, <1>3, <1>4, <1>5

\* Saving a source gives it the next version and touches no other file.
LEMMA Edited ==
  ASSUME TypeOK, Edit
  PROVE  /\ UNCHANGED <<platform, argv, cmd, at, mem, shown, args, code>>
         /\ \E g \in Path :
              /\ file[g].k = "source" /\ file[g].of[2] \in Nat
              /\ file'[g].k = "source" /\ file'[g].of[1] = file[g].of[1]
              /\ file'[g].of[2] = file[g].of[2] + 1
              /\ \A f \in Files \ {g} : file'[f] = file[f]
<1>1. PICK g \in Path : /\ file[g].k = "source" /\ file[g].of[2] < MaxVersion
                        /\ file' = [file EXCEPT ![g] = [file[g] EXCEPT !.of[2] = @ + 1]]
  BY DEF Edit, Put
<1>2. g \in Files
  BY Words
<1>3. file[g] \in Content /\ file[g].of[2] \in Nat /\ file[g].of = <<file[g].of[1], file[g].of[2]>>
  BY <1>2, ContentFields, DriverAssumption DEF TypeOK
<1>4. file'[g] = [file[g] EXCEPT !.of[2] = @ + 1] /\ \A f \in Files \ {g} : file'[f] = file[f]
  BY <1>1, <1>2 DEF TypeOK
<1>5. /\ file'[g].k = "source" /\ file'[g].of[1] = file[g].of[1]
      /\ file'[g].of[2] = file[g].of[2] + 1
  BY <1>1, <1>3, <1>4 DEF Content
<1> QED BY <1>1, <1>3, <1>4, <1>5 DEF Edit, command
-----------------------------------------------------------------------------
(* What a run has in memory, and where it stands *)

\* A step of one run leaves what belongs to the others.
LEMMA OthersStay ==
  ASSUME TypeOK, NEW q \in Run, Step(q) \/ Kill(q)
  PROVE  \A p \in Run \ {q} : /\ at'[p] = at[p] /\ mem'[p] = mem[p] /\ shown'[p] = shown[p]
                              /\ args'[p] = args[p] /\ code'[p] = code[p]
<1> USE DEF TypeOK, Goto, Exit, command
<1>1. CASE Usage(q) \/ Read(q) \/ Explain(q) \/ Kill(q)
  BY <1>1 DEF Usage, Read, Explain, Kill
<1>2. CASE Open(q)
  BY <1>2 DEF Open
<1>3. CASE Write(q)
  BY <1>3 DEF Write
<1>4. CASE OpenRsp(q) \/ FillRsp(q) \/ Spawn(q)
  BY <1>4 DEF OpenRsp, FillRsp, Spawn
<1>5. CASE Link(q)
  BY <1>5 DEF Link, Returned
<1>6. CASE Remove(q)
  BY <1>6 DEF Remove
<1> QED BY <1>1, <1>2, <1>3, <1>4, <1>5, <1>6 DEF Step

\* What a run has read it keeps.
LEMMA MemoryStays ==
  ASSUME TypeOK, MemoryOK, [Next]_vars
  PROVE  \A p \in Run : /\ mem[p] # Absent => mem'[p] = mem[p]
                        /\ Accepted(mem[p]) => mem'[p] = mem[p] /\ Accepted(mem'[p])
<1>1. mem' = mem \/ \E p \in Run : Read(p)
  BY DEF Next, Step, Usage, Explain, Open, Write, OpenRsp, FillRsp, Spawn, Link, Remove,
         Kill, Edit, Over, vars, command
<1>2. \A p \in Run : mem[p] # Absent => mem'[p] = mem[p]
  BY <1>1 DEF Read, MemoryOK, TypeOK
<1> QED BY <1>2, Contents DEF Accepted

\* A step keeps what a run has in memory where it stands.
LEMMA MemoryStep ==
  ASSUME TypeOK, MemoryOK, PlaceOK, FilesOK, TypeOK', [Next]_vars
  PROVE  MemoryOK'
<1> DEFINE At(a, c, m, p) ==
             /\ a[p] = "read" => m[p] = Absent
             /\ a[p] \in Ahead \/ c[p] = 0 => Accepted(m[p])
             /\ a[p] = "explain" => ~Accepted(m[p]) /\ cmd[p].in # NoPath
             /\ cmd[p].in = NoPath => m[p] = Absent /\ c[p] \in {-1, 1}
             /\ m[p].k = "source" => m[p].of[1] = cmd[p].in
<1>0. \A p \in Run : At(at, code, mem, p)
  BY DEF MemoryOK
<1>c. cmd' = cmd
  BY CommandKept
<1>g. SUFFICES \A p \in Run : At(at', code', mem', p)
  BY <1>c DEF MemoryOK
<1>1. CASE Edit \/ UNCHANGED vars
  BY <1>1, <1>0 DEF Edit, vars, command
<1>2. ASSUME NEW q \in Run, Step(q) \/ Kill(q) PROVE \A p \in Run : At(at', code', mem', p)
  <2>1. \A p \in Run \ {q} : At(at', code', mem', p)
    BY <1>0, <1>2, OthersStay
  <2>p. /\ at[q] \in Steps \ {"exited"} => code[q] = -1
        /\ at[q] \in Steps
    BY DEF PlaceOK, TypeOK, Steps, Running
  <2>2. CASE Read(q)
    <3>1. cmd[q].in \in Files /\ cmd[q].in # NoPath
      BY <2>2, Words DEF Read, Found, TypeOK, Command
    <3>2. mem'[q] \in Readings(file[cmd[q].in])
      BY <2>2 DEF Read, TypeOK
    <3>c. file[cmd[q].in] \in Content
      BY <3>1 DEF TypeOK
    <3>3. mem'[q].k = "source" => mem'[q].of[1] = cmd[q].in
      BY <3>1, <3>2, <3>c, ReadContent DEF FilesOK
    <3>4. at'[q] = (IF Accepted(mem'[q]) THEN "open" ELSE "explain") /\ code'[q] = code[q]
      BY <2>2 DEF Read, Goto, TypeOK
    <3>5. code[q] = -1
      BY <2>2, <2>p DEF Read, Steps
    <3>6. At(at', code', mem', q)
      BY <3>1, <3>3, <3>4, <3>5 DEF Ahead
    <3> QED BY <2>1, <3>6
  <2>3. CASE ~Read(q)
    <3>1. mem' = mem
      BY <1>2, <2>3 DEF Step, Usage, Explain, Open, Write, OpenRsp, FillRsp, Spawn, Link,
                        Remove, Kill
    <3>2. \/ at'[q] \in {"exited", "killed"} /\ code'[q] \in {1, code[q]}
          \/ at'[q] \in Ahead /\ at[q] \in Ahead /\ code'[q] = code[q]
          \/ at'[q] = "exited" /\ at[q] \in Ahead
      <4> USE DEF TypeOK, Goto, Exit, Ahead
      <4>1. CASE Usage(q) \/ Explain(q) \/ Kill(q)
        BY <4>1 DEF Usage, Explain, Kill
      <4>2. CASE Open(q)
        BY <4>2 DEF Open
      <4>3. CASE Write(q)
        BY <4>3 DEF Write
      <4>4. CASE OpenRsp(q) \/ FillRsp(q) \/ Spawn(q)
        BY <4>4 DEF OpenRsp, FillRsp, Spawn
      <4>5. CASE Link(q)
        BY <4>5 DEF Link, Returned
      <4>6. CASE Remove(q)
        BY <4>6 DEF Remove
      <4> QED BY <1>2, <2>3, <4>1, <4>2, <4>3, <4>4, <4>5, <4>6 DEF Step
    <3>a. cmd[q].in = NoPath => at[q] \notin Ahead
      BY <1>0, Contents DEF Accepted
    <3>b. /\ at[q] \in Ahead => Accepted(mem[q]) /\ cmd[q].in # NoPath
          /\ code[q] = 0 => Accepted(mem[q])
      BY <3>a, <1>0
    <3>3. At(at', code', mem', q)
      <4>1. CASE at'[q] \in {"exited", "killed"} /\ code'[q] \in {1, code[q]}
        BY <3>1, <4>1, <3>b, <1>0 DEF Ahead
      <4>2. CASE at'[q] \in Ahead /\ at[q] \in Ahead /\ code'[q] = code[q]
        BY <3>1, <4>2, <3>b, <1>0 DEF Ahead
      <4>3. CASE at'[q] = "exited" /\ at[q] \in Ahead
        BY <3>1, <4>3, <3>b, <1>0 DEF Ahead
      <4> QED BY <3>2, <4>1, <4>2, <4>3
    <3> QED BY <2>1, <3>3
  <2> QED BY <2>2, <2>3
<1> QED BY <1>1, <1>2, Actions DEF Step
\* A step keeps where runs can stand: link() is for runs that link, and its
\* response file for the bundled linker.
LEMMA PlaceStep ==
  ASSUME TypeOK, PlaceOK, [Next]_vars
  PROVE  PlaceOK'
<1> DEFINE At(a, c, p) == /\ a[p] \in Linking => Links(p)
                          /\ a[p] \in Linking \ {"link"} => platform = "bundled"
                          /\ c[p] # -1 <=> a[p] = "exited"
<1>0. \A p \in Run : At(at, code, p)
  BY DEF PlaceOK
<1>c. platform' = platform /\ \A p \in Run : Links(p)' <=> Links(p)
  BY CommandKept, NamesKept
<1>g. SUFFICES \A p \in Run : At(at', code', p)
  BY <1>c DEF PlaceOK
<1>1. CASE Edit \/ UNCHANGED vars
  BY <1>1, <1>0 DEF Edit, vars, command
<1>2. ASSUME NEW q \in Run, Step(q) \/ Kill(q) PROVE \A p \in Run : At(at', code', p)
  <2>1. \A p \in Run \ {q} : At(at', code', p)
    BY <1>0, <1>2, OthersStay
  <2>2. At(at', code', q)
    <3> USE DEF TypeOK, Goto, Exit, Linking
    <3>0. At(at, code, q)
      BY <1>0
    <3>1. CASE Usage(q) \/ Read(q) \/ Explain(q) \/ Kill(q)
      BY <3>1, <3>0 DEF Usage, Read, Explain, Kill
    <3>2. CASE Open(q)
      BY <3>2, <3>0 DEF Open
    <3>3. CASE Write(q)
      BY <3>3, <3>0 DEF Write, Links
    <3>4. CASE OpenRsp(q) \/ FillRsp(q) \/ Spawn(q)
      BY <3>4, <3>0 DEF OpenRsp, FillRsp, Spawn
    <3>5. CASE Link(q)
      BY <3>5, <3>0 DEF Link, Returned
    <3>6. CASE Remove(q)
      BY <3>6, <3>0 DEF Remove
    <3> QED BY <1>2, <3>1, <3>2, <3>3, <3>4, <3>5, <3>6 DEF Step
  <2> QED BY <2>1, <2>2
<1> QED BY <1>1, <1>2, Actions DEF Step

\* No step makes a source of anything else, or makes it tell another name.
LEMMA FilesStep ==
  ASSUME TypeOK, MemoryOK, ArgsOK, FilesOK, [Next]_vars
  PROVE  FilesOK'
<1>c. cmd' = cmd
  BY CommandKept
<1> SUFFICES ASSUME NEW f \in Files, file'[f].k = "source"
             PROVE  /\ f \in Path /\ file'[f].of[1] = f
                    /\ \E q \in Run : f = cmd[q].in
  BY <1>c DEF FilesOK
<1>1. CASE file'[f] = file[f]
  BY <1>1 DEF FilesOK
<1>2. CASE Edit
  BY <1>2, Edited, <1>1 DEF FilesOK
<1>3. ASSUME NEW q \in Run, Step(q) \/ Kill(q)
      PROVE  file'[f] = file[f]
  BY <1>3, Footprint
<1> QED BY <1>1, <1>2, <1>3, Actions DEF Step, vars

\* A step keeps the response file, and every linker's arguments, those of a
\* run whose source compiles.
LEMMA ArgsStep ==
  ASSUME TypeOK, MemoryOK, PlaceOK, ArgsOK, [Next]_vars
  PROVE  ArgsOK'
<1>c. platform' = platform
  BY CommandKept
<1>n. \A r \in Run : Links(r)' <=> Links(r)
  BY NamesKept
<1>s. ASSUME NEW q \in Run, at[q] \in Ahead
      PROVE  ArgsOf(q, Args(ObjPath(q), Out(q)))
  BY <1>s DEF ArgsOf, MemoryOK
<1>1. file'[Rsp].k = "response" => \E r \in Run : Links(r) /\ ArgsOf(r, file'[Rsp])
  <2>1. CASE file'[Rsp] = file[Rsp]
    BY <2>1 DEF ArgsOK
  <2>2. ASSUME NEW q \in Run, FillRsp(q)
        PROVE  \E r \in Run : Links(r) /\ ArgsOf(r, file'[Rsp])
    <3>1. file'[Rsp] = Args(ObjPath(q), Out(q)) /\ at[q] = "fill"
      BY <2>2, Words DEF FillRsp, Put, TypeOK
    <3> QED BY <3>1, <1>s DEF PlaceOK, Ahead, Linking
  <2>3. ASSUME NEW q \in Run, OpenRsp(q) \/ Remove(q)
        PROVE  file'[Rsp] = file[Rsp] \/ file'[Rsp].k # "response"
    BY <2>3, Words, Contents DEF OpenRsp, Remove, Put, TypeOK
  <2>4. ASSUME NEW q \in Run, Step(q) \/ Kill(q), ~(OpenRsp(q) \/ FillRsp(q) \/ Remove(q))
        PROVE  file'[Rsp] = file[Rsp]
    <3>1. CASE Open(q) \/ Write(q) \/ Link(q)
      <4>1. \/ file'[Rsp] = file[Rsp]
            \/ at[q] \in Linking
        BY <2>4, Words, Footprint
      <4>2. CASE Open(q) \/ Write(q)
        BY <4>1, <4>2 DEF Open, Write, Linking
      <4>3. CASE Link(q)
        <5>1. args[q].k = "response" => args[q].exe # Rsp
          BY LinkedFiles, Words
        <5>2. UNCHANGED file \/ (args[q].k = "response" /\ \E x : Put(args[q].exe, x))
          BY <4>3 DEF Link
        <5> QED BY <5>1, <5>2, Words DEF Put, TypeOK
      <4> QED BY <3>1, <4>2, <4>3
    <3>2. CASE ~(Open(q) \/ Write(q) \/ Link(q))
      BY <3>2, <2>4 DEF Step, Usage, Read, Explain, Spawn, Kill
    <3> QED BY <3>1, <3>2
  <2>5. CASE Edit
    BY <2>5, Edited, Words, <2>1
  <2> QED BY <2>1, <2>2, <2>3, <2>4, <2>5, Actions DEF Step, vars
<1>2. ASSUME NEW q \in Run, args'[q].k = "response"
      PROVE  \/ ArgsOf(q, args'[q])
             \/ (platform = "bundled" /\ \E r \in Run : Links(r) /\ ArgsOf(r, args'[q]))
  <2>1. CASE args'[q] = args[q]
    BY <1>2, <2>1 DEF ArgsOK
  <2>2. CASE Write(q)
    <3>1. at[q] \in Ahead /\ args'[q] = Args(ObjPath(q), Out(q))
      BY <2>2 DEF Write, Ahead, TypeOK
    <3> QED BY <3>1, <1>s
  <2>3. CASE Spawn(q)
    <3>1. at[q] = "spawn" /\ args'[q] = file[Rsp]
      BY <2>3 DEF Spawn, TypeOK
    <3> QED BY <3>1, <1>2 DEF ArgsOK, PlaceOK, Linking
  <2>4. ASSUME NEW p \in Run, Step(p) \/ Kill(p) PROVE args'[q] = args[q] \/ Write(q) \/ Spawn(q)
    <3>1. CASE p # q
      BY <3>1, <2>4, OthersStay
    <3>2. CASE p = q
      BY <3>2, <2>4 DEF Step, Usage, Read, Explain, Open, OpenRsp, FillRsp, Link, Remove, Kill
    <3> QED BY <3>1, <3>2
  <2> QED BY <2>1, <2>2, <2>3, <2>4, Actions, Edited DEF Step, vars
<1>3. file'[Rsp].k = "response" => \E r \in Run : Links(r)' /\ ArgsOf(r, file[Rsp])'
  BY <1>1, <1>n, MemoryStays, NamesKept DEF ArgsOf
<1>4. ASSUME NEW q \in Run, args'[q].k = "response"
      PROVE  \/ ArgsOf(q, args[q])'
             \/ (platform' = "bundled" /\ \E r \in Run : Links(r)' /\ ArgsOf(r, args[q])')
  <2>1. CASE ArgsOf(q, args'[q])
    BY <2>1, MemoryStays, NamesKept DEF ArgsOf
  <2>2. CASE platform = "bundled" /\ \E r \in Run : Links(r) /\ ArgsOf(r, args'[q])
    BY <2>2, <1>c, <1>n, MemoryStays, NamesKept DEF ArgsOf
  <2> QED BY <1>2, <1>4, <2>1, <2>2
<1> QED BY <1>3, <1>4 DEF ArgsOK
\* A step keeps that somebody is there to remove the response file, or has
\* been killed.
LEMMA RspStep ==
  ASSUME TypeOK, MemoryOK, PlaceOK, ArgsOK, RspOK, [Next]_vars
  PROVE  RspOK'
<1>c. platform' = platform
  BY CommandKept
<1> SUFFICES ASSUME file'[Rsp] # Absent
             PROVE  platform = "bundled" /\ \E p \in Run : at'[p] \in Using
  BY <1>c DEF RspOK
<1>1. CASE Edit
  BY <1>1, Edited, Words DEF RspOK
<1>2. CASE UNCHANGED vars
  BY <1>2 DEF RspOK, vars
<1>3. ASSUME NEW q \in Run, Step(q) \/ Kill(q)
      PROVE  platform = "bundled" /\ \E p \in Run : at'[p] \in Using
  <2>1. CASE OpenRsp(q) /\ ~UNCHANGED file
    <3>1. at[q] = "rsp" /\ at'[q] = "fill"
      BY <2>1 DEF OpenRsp, Goto, Exit, TypeOK
    <3> QED BY <3>1 DEF PlaceOK, Linking, Using
  <2>2. CASE FillRsp(q)
    <3>1. at[q] = "fill" /\ at'[q] = "spawn"
      BY <2>2 DEF FillRsp, Goto, TypeOK
    <3> QED BY <3>1 DEF PlaceOK, Linking, Using
  <2>3. CASE Remove(q)
    <3>1. file'[Rsp] = Absent \/ \E p \in Run \ {q} : at[p] = "fill"
      BY <2>3, Words DEF Remove, Put, TypeOK
    <3>2. PICK p \in Run \ {q} : at[p] = "fill"
      BY <3>1
    <3>3. at'[p] = "fill"
      BY <3>2, <1>3, OthersStay
    <3> QED BY <3>2, <3>3 DEF PlaceOK, Linking, Using
  <2>4. CASE ~FillRsp(q) /\ ~Remove(q) /\ ~(OpenRsp(q) /\ ~UNCHANGED file)
    <3>1. file'[Rsp] = file[Rsp]
      <4>1. CASE UNCHANGED file
        BY <4>1
      <4>2. CASE Open(q) \/ Write(q)
        BY <1>3, <4>2, Words, Footprint DEF Open, Write, Linking
      <4>3. CASE Link(q)
        <5>1. args[q].k = "response" => args[q].exe # Rsp
          BY LinkedFiles, Words
        <5>2. UNCHANGED file \/ (args[q].k = "response" /\ \E x : Put(args[q].exe, x))
          BY <4>3 DEF Link
        <5> QED BY <5>1, <5>2, Words DEF Put, TypeOK
      <4> QED BY <1>3, <2>4, <4>1, <4>2, <4>3 DEF Step, Usage, Read, Explain, Spawn, Kill
    <3>2. PICK p \in Run : platform = "bundled" /\ at[p] \in Using
      BY <3>1 DEF RspOK
    <3>3. CASE p # q
      BY <3>2, <3>3, <1>3, OthersStay
    <3>4. CASE p = q
      <4>1. Spawn(q) \/ Link(q) \/ Kill(q)
        BY <1>3, <2>4, <3>2, <3>4
           DEF Step, Using, Usage, Read, Explain, Open, Write, OpenRsp
      <4>2. at'[q] \in Using
        BY <4>1, <3>2 DEF Spawn, Link, Kill, Returned, Goto, Using, TypeOK
      <4> QED BY <3>2, <4>2
    <3> QED BY <3>3, <3>4
  <2> QED BY <2>1, <2>2, <2>3, <2>4
<1> QED BY <1>1, <1>2, <1>3, Actions DEF Step

-----------------------------------------------------------------------------
(* Sources *)

\* A step keeps a source where it was, unless a run's output has its name.
LEMMA SourcesStep ==
  ASSUME TypeOK, MemoryOK, PlaceOK, ArgsOK, SourcesKept, [Next]_vars
  PROVE  SourcesKept'
<1> DEFINE Named(f) ==
      \E q \in Run : \/ cmd[q].out = f
                     \/ f[2] = "o" /\ cmd[q].in[1] = f[1]
                     \/ /\ f[2] = (IF platform = "unix" THEN "" ELSE "exe")
                        /\ cmd[q].in[1] = f[1] /\ Links(q)
<1>c. cmd' = cmd /\ platform' = platform /\ \A q \in Run : Links(q)' <=> Links(q)
  BY CommandKept, NamesKept
<1>0. \A p \in Run : cmd[p].in # NoPath => file[cmd[p].in].k = "source" \/ Named(cmd[p].in)
  BY DEF SourcesKept
<1>n. ASSUME \A p \in Run : cmd[p].in # NoPath => file'[cmd[p].in].k = "source" \/ Named(cmd[p].in)
      PROVE  SourcesKept'
  <2>1. ASSUME NEW p \in Run, cmd'[p].in # NoPath, file'[cmd'[p].in].k # "source"
        PROVE  \E q \in Run : \/ cmd'[q].out = cmd'[p].in
                              \/ cmd'[p].in[2] = "o" /\ cmd'[q].in[1] = cmd'[p].in[1]
                              \/ /\ cmd'[p].in[2] = (IF platform' = "unix" THEN "" ELSE "exe")
                                 /\ cmd'[q].in[1] = cmd'[p].in[1] /\ Links(q)'
    <3>1. cmd[p].in # NoPath /\ file'[cmd[p].in].k # "source"
      BY <2>1, <1>c
    <3>2. PICK q \in Run : \/ cmd[q].out = cmd[p].in
                           \/ cmd[p].in[2] = "o" /\ cmd[q].in[1] = cmd[p].in[1]
                           \/ /\ cmd[p].in[2] = (IF platform = "unix" THEN "" ELSE "exe")
                              /\ cmd[q].in[1] = cmd[p].in[1] /\ Links(q)
      BY <1>n, <3>1
    <3> QED BY <3>2, <1>c
  <2> QED BY <2>1 DEF SourcesKept
<1>g. SUFFICES ASSUME NEW p \in Run, cmd[p].in # NoPath, ~Named(cmd[p].in)
               PROVE  file'[cmd[p].in].k = "source"
  BY <1>n
<1> DEFINE f == cmd[p].in
<1>1. f \in Files /\ f \in Path /\ f # Rsp /\ file[f].k = "source" /\ ~Named(f)
  BY <1>0, <1>g, Names, Words
<1>o. ASSUME NEW r \in Run PROVE f \notin {ObjPath(r), Out(r)}
  <2>1. ASSUME f = Out(r) PROVE Named(f)
    <3>1. CASE cmd[r].out # NoPath
      BY <2>1, <3>1 DEF Out
    <3>2. CASE cmd[r].out = NoPath /\ ObjectOnly(r)
      <4>1. f = <<cmd[r].in[1], "o">>
        BY <2>1, <3>2 DEF Out, StripExt
      <4>2. f[1] = cmd[r].in[1] /\ f[2] = "o"
        BY <4>1
      <4> QED BY <4>2
    <3>3. CASE cmd[r].out = NoPath /\ ~ObjectOnly(r)
      <4>1. PICK e : e = (IF platform = "unix" THEN "" ELSE "exe")
        OBVIOUS
      <4>2. f = <<cmd[r].in[1], e>> /\ Links(r)
        BY <2>1, <3>3, <4>1 DEF Out, StripExt, Links
      <4>3. f[1] = cmd[r].in[1] /\ f[2] = e
        BY <4>2
      <4> QED BY <4>1, <4>2, <4>3
    <3> QED BY <3>1, <3>2, <3>3
  <2>2. ASSUME f = ObjPath(r) PROVE Named(f)
    <3>1. CASE ObjectOnly(r)
      BY <2>1, <2>2, <3>1 DEF ObjPath
    <3>2. CASE ~ObjectOnly(r)
      BY <2>2, <3>2 DEF ObjPath, StripExt
    <3> QED BY <3>1, <3>2
  <2> QED BY <1>1, <2>1, <2>2
<1> HIDE DEF f, Named
<1>2. ASSUME Edit PROVE file'[f].k = "source"
  BY <1>2, <1>1, Edited
<1>3. ASSUME NEW q \in Run, Step(q) \/ Kill(q)
      PROVE  file'[f] = file[f]
  BY <1>1, <1>3, <1>o, Footprint
<1>4. file'[f].k = "source"
  BY <1>1, <1>2, <1>3, Actions DEF Step, vars
<1> QED BY <1>4 DEF f
-----------------------------------------------------------------------------
(* What a source that does not compile costs *)

\* A step keeps the files of a run whose source is not known to compile.
LEMMA UntouchedStep ==
  ASSUME TypeOK, MemoryOK, PlaceOK, FilesOK, ArgsOK, UntouchedOK, TypeOK', [Next]_vars
  PROVE  UntouchedOK'
<1> DEFINE Intact(p, fl, m, a, s) ==
      IF cmd[p].in # NoPath
      THEN /\ fl[Out(p)] = OldOutput
           /\ fl[cmd[p].in].k = "source"
           /\ m[p] # Absent => /\ m[p].k = "source"
                               /\ fl[cmd[p].in].of[2] >= m[p].of[2]
           /\ m[p] # Absent /\ a[p] = "exited" =>
                /\ s[p].k = "source" /\ s[p].of[1] = cmd[p].in
                /\ s[p].of[2] >= m[p].of[2]
      ELSE m[p] = Absent
<1>c. cmd' = cmd /\ \A p \in Run : Out(p)' = Out(p) /\ (Apart(p)' <=> Apart(p))
  BY CommandKept, NamesKept
<1>g. SUFFICES ASSUME NEW p \in Run, Apart(p), cmd[p].in # Out(p), ~Accepted(mem'[p])
               PROVE  Intact(p, file', mem', at', shown')
  BY <1>c DEF UntouchedOK
<1>0. ~Accepted(mem[p])
  BY <1>g, MemoryStays
<1>1. Intact(p, file, mem, at, shown)
  BY <1>g, <1>0 DEF UntouchedOK
<1>n. cmd[p].in # NoPath => {cmd[p].in, Out(p)} \subseteq Word
  BY Names, Words
<1>f. ASSUME NEW q \in Run, Step(q) \/ Kill(q), NEW f \in {cmd[p].in, Out(p)}, f \in Word
      PROVE  file'[f] = file[f]
  <2>1. f \in Files /\ f # Rsp
    BY <1>f, Words
  <2>2. ASSUME NEW r \in Run, Accepted(mem[r]), f \in {ObjPath(r), Out(r)} PROVE FALSE
    <3>1. r # p
      BY <2>2, <1>0
    <3> QED BY <3>1, <2>2, <1>f, <1>g DEF Apart
  <2> QED BY <2>1, <2>2, <1>f, Footprint
<1>v. ASSUME cmd[p].in # NoPath
      PROVE  /\ file[cmd[p].in].of[2] \in Nat /\ file'[cmd[p].in].of[2] \in Nat
             /\ mem[p].of[2] \in Nat
             /\ file[cmd[p].in].of[1] = cmd[p].in
  <2>1. cmd[p].in \in Files
    BY <1>v, <1>n, Words
  <2>2. file[cmd[p].in] \in Content /\ file'[cmd[p].in] \in Content /\ mem[p] \in Content
    BY <2>1 DEF TypeOK
  <2> QED BY <2>1, <2>2, <1>v, <1>1, ContentFields, DriverAssumption DEF FilesOK
<1>2. ASSUME UNCHANGED vars PROVE Intact(p, file', mem', at', shown')
  BY <1>2, <1>1 DEF vars
<1>3. ASSUME Edit PROVE Intact(p, file', mem', at', shown')
  <2>1. PICK g \in Path : /\ file[g].k = "source" /\ file[g].of[2] \in Nat
                          /\ file'[g].k = "source" /\ file'[g].of[1] = file[g].of[1]
                          /\ file'[g].of[2] = file[g].of[2] + 1
                          /\ \A f \in Files \ {g} : file'[f] = file[f]
    BY <1>3, Edited
  <2>2. mem' = mem /\ at' = at /\ shown' = shown
    BY <1>3, Edited
  <2>3. CASE cmd[p].in # NoPath
    <3>1. Out(p) \in Files /\ Out(p) # g /\ cmd[p].in \in Files
      BY <2>1, <2>3, <1>1, <1>n, Words, Contents
    <3>2. file'[Out(p)] = OldOutput
      BY <3>1, <2>1, <2>3, <1>1
    <3>3. /\ file'[cmd[p].in].k = "source"
          /\ file'[cmd[p].in].of[2] >= file[cmd[p].in].of[2]
      BY <3>1, <2>1, <2>3, <1>1, <1>v
    <3>4. mem[p] # Absent => file'[cmd[p].in].of[2] >= mem[p].of[2]
      BY <3>3, <2>3, <1>1, <1>v
    <3> QED BY <2>2, <2>3, <3>2, <3>3, <3>4, <1>1
  <2>4. CASE cmd[p].in = NoPath
    BY <2>2, <2>4, <1>1
  <2> QED BY <2>3, <2>4
<1>4. ASSUME NEW q \in Run, Step(q) \/ Kill(q) PROVE Intact(p, file', mem', at', shown')
  <2>1. CASE cmd[p].in = NoPath
    <3>1. ~Read(p)
      BY <2>1 DEF Read, Found
    <3>2. CASE q = p
      BY <3>1, <3>2, <2>1, <1>1, <1>4 DEF Step, Usage, Explain, Open, Write, OpenRsp, FillRsp,
                                         Spawn, Link, Remove, Kill
    <3>3. CASE q # p
      BY <3>3, <2>1, <1>1, <1>4, OthersStay
    <3> QED BY <3>2, <3>3
  <2>2. CASE cmd[p].in # NoPath
    <3>1. file'[Out(p)] = file[Out(p)] /\ file'[cmd[p].in] = file[cmd[p].in]
      BY <2>2, <1>n, <1>f, <1>4
    <3>2. CASE q # p
      BY <2>2, <3>1, <3>2, <1>1, <1>4, OthersStay
    <3>3. CASE q = p
      <4>1. at[p] \notin Ahead
        BY <1>0 DEF MemoryOK
      <4>2. Usage(p) \/ Read(p) \/ Explain(p) \/ Kill(p)
        BY <1>4, <3>3, <4>1 DEF Step, Open, Write, OpenRsp, FillRsp, Spawn, Link, Remove, Ahead
      <4>3. CASE Usage(p)
        <5>1. mem'[p] = Absent
          BY <4>3 DEF Usage, MemoryOK
        <5> QED BY <2>2, <3>1, <5>1, <1>1
      <4>4. CASE Read(p)
        <5>1. mem'[p] \in Readings(file[cmd[p].in]) /\ at'[p] # "exited"
          BY <4>4 DEF Read, Goto, TypeOK
        <5>2. file[cmd[p].in] \in Content
          BY <2>2, <1>n, Words DEF TypeOK
        <5>3. mem'[p] = file[cmd[p].in]
          BY <2>2, <5>1, <5>2, <1>1, ReadContent
        <5> QED BY <5>3, <2>2, <3>1, <5>1, <1>1, <1>v
      <4>5. CASE Explain(p)
        <5>1. mem'[p] = mem[p] /\ shown'[p] = file[cmd[p].in]
          BY <4>5 DEF Explain, TypeOK
        <5> QED BY <2>2, <3>1, <5>1, <1>1, <1>v
      <4>6. CASE Kill(p)
        <5>1. mem'[p] = mem[p] /\ at'[p] = "killed"
          BY <4>6 DEF Kill, Goto, TypeOK
        <5> QED BY <2>2, <3>1, <5>1, <1>1
      <4> QED BY <4>2, <4>3, <4>4, <4>5, <4>6
    <3> QED BY <3>2, <3>3
  <2> QED BY <2>1, <2>2
<1> QED BY <1>2, <1>3, <1>4, Actions DEF Step
-----------------------------------------------------------------------------
(* What an exit with 0 has left *)

\* The step of another run leaves the files of a run whose files nobody else
\* uses, and the response file while that run is in link().
LEMMA OthersApart ==
  ASSUME TypeOK, MemoryOK, PlaceOK, FilesOK, ArgsOK,
         NEW p \in Run, Alone(p), Accepted(mem[p]),
         Edit \/ \E q \in Run \ {p} : Step(q) \/ Kill(q)
  PROVE  /\ file'[ObjPath(p)] = file[ObjPath(p)] /\ file'[Out(p)] = file[Out(p)]
         /\ platform = "bundled" => file'[Rsp] = file[Rsp]
<1>a. Apart(p) /\ LinksAlone(p) /\ Distinct(p)
  BY DEF Alone
<1>w. {ObjPath(p), Out(p)} \subseteq Word
  BY Outputs
<1>1. CASE Edit
  <2>1. PICK g \in Path : /\ file[g].k = "source"
                          /\ \A f \in Files \ {g} : file'[f] = file[f]
    BY <1>1, Edited
  <2>2. PICK q \in Run : g = cmd[q].in
    BY <2>1, Words DEF FilesOK
  <2>3. g \notin {ObjPath(p), Out(p)}
    BY <2>2, <1>a DEF Apart, Distinct
  <2>4. g # Rsp
    BY Words
  <2> QED BY <2>1, <2>3, <2>4, <1>w, Words
<1>2. ASSUME NEW q \in Run \ {p}, Step(q) \/ Kill(q)
      PROVE  /\ file'[ObjPath(p)] = file[ObjPath(p)] /\ file'[Out(p)] = file[Out(p)]
             /\ platform = "bundled" => file'[Rsp] = file[Rsp]
  <2>l. platform = "bundled" => at[q] \notin Linking
    BY <1>a DEF LinksAlone, PlaceOK
  <2>1. ASSUME NEW f \in {ObjPath(p), Out(p)} PROVE file'[f] = file[f]
    <3>1. f \in Files /\ f # Rsp
      BY <1>w, Words
    <3>2. ~(Accepted(mem[q]) /\ f \in {ObjPath(q), Out(q)})
      BY <1>a DEF Apart
    <3>3. ~(platform = "bundled" /\ at[q] = "link")
      BY <2>l DEF Linking
    <3> QED BY <3>1, <3>2, <3>3, <1>2, Footprint
  <2>2. platform = "bundled" => file'[Rsp] = file[Rsp]
    BY <2>l, <1>2, Footprint, Words
  <2> QED BY <2>1, <2>2
<1> QED BY <1>1, <1>2

\* A step keeps what is in the files of such a run where it stands.
LEMMA ProgressStep ==
  ASSUME TypeOK, MemoryOK, PlaceOK, FilesOK, ArgsOK, ProgressOK, [Next]_vars
  PROVE  ProgressOK'
<1> DEFINE Good(p) ==
      /\ at[p] = "write" => file[ObjPath(p)] = Partial
      /\ at[p] \in Linking => file[ObjPath(p)] \in {Partial, Object(p)}
      /\ at[p] = "spawn" => file[Rsp] = Args(ObjPath(p), Out(p))
      /\ at[p] = "link" => args[p] = Args(ObjPath(p), Out(p))
      /\ at[p] = "linked" \/ code[p] = 0 => file[Out(p)] = Product(p)
    GoodNext(p, o, x) ==
      /\ at'[p] = "write" => file'[ObjPath(p)] = Partial
      /\ at'[p] \in Linking => file'[ObjPath(p)] \in {Partial, o}
      /\ at'[p] = "spawn" => file'[Rsp] = Args(ObjPath(p), Out(p))
      /\ at'[p] = "link" => args'[p] = Args(ObjPath(p), Out(p))
      /\ at'[p] = "linked" \/ code'[p] = 0 => file'[Out(p)] = x
<1>c. cmd' = cmd /\ \A p \in Run : /\ Out(p)' = Out(p) /\ ObjPath(p)' = ObjPath(p)
                                   /\ (Alone(p)' <=> Alone(p))
  BY CommandKept, NamesKept
<1>g. ASSUME \A p \in Run : Alone(p) => GoodNext(p, Object(p)', Product(p)')
      PROVE  ProgressOK'
  BY <1>g, <1>c DEF ProgressOK
<1>1. SUFFICES ASSUME NEW p \in Run, Alone(p)
               PROVE  GoodNext(p, Object(p)', Product(p)')
  BY <1>g
<1>2. Good(p)
  BY <1>1 DEF ProgressOK
<1>3. mem'[p] = mem[p] => Object(p)' = Object(p) /\ Product(p)' = Product(p)
  BY <1>c DEF Object, Product, C
<1>a. Accepted(mem[p]) => {ObjPath(p), Out(p)} \subseteq Word /\ {ObjPath(p), Out(p)} \subseteq Files
  BY Outputs, Words
<1>d. Links(p) => ObjPath(p) # Out(p)
  BY <1>1 DEF Alone, Distinct
<1>k. /\ Object(p).k = "object" /\ Object(p) = C("object", mem[p].of, NoPath, NoPath)
      /\ Object(p).of = mem[p].of /\ Partial.k = "partial"
  BY Contents DEF Object
<1>4. ASSUME UNCHANGED vars PROVE GoodNext(p, Object(p)', Product(p)')
  BY <1>4, <1>2, <1>3 DEF vars
<1>5. ASSUME Edit \/ \E q \in Run \ {p} : Step(q) \/ Kill(q)
      PROVE  GoodNext(p, Object(p)', Product(p)')
  <2>1. at'[p] = at[p] /\ mem'[p] = mem[p] /\ args'[p] = args[p] /\ code'[p] = code[p]
    BY <1>5, OthersStay, Edited
  <2>2. CASE at[p] \in Ahead \/ code[p] = 0
    <3>1. Accepted(mem[p])
      BY <2>2 DEF MemoryOK
    <3>2. file'[ObjPath(p)] = file[ObjPath(p)] /\ file'[Out(p)] = file[Out(p)]
      BY <3>1, <1>1, <1>5, OthersApart
    <3>3. at[p] = "spawn" => file'[Rsp] = file[Rsp]
      BY <3>1, <1>1, <1>5, OthersApart DEF PlaceOK, Linking
    <3> QED BY <2>1, <3>2, <3>3, <1>2, <1>3
  <2>3. CASE ~(at[p] \in Ahead \/ code[p] = 0)
    BY <2>1, <2>3 DEF Ahead, Linking
  <2> QED BY <2>2, <2>3
<1>6. ASSUME Step(p) \/ Kill(p) PROVE GoodNext(p, Object(p)', Product(p)')
  <2> USE DEF TypeOK
  <2>p. at[p] # "exited" => code[p] = -1
    BY DEF PlaceOK
  <2>1. CASE Usage(p) \/ Read(p) \/ Explain(p) \/ Kill(p)
    <3>1. /\ at'[p] \in {"open", "explain", "exited", "killed"}
          /\ code'[p] = 1 \/ (code'[p] = code[p] /\ at[p] # "exited")
      BY <2>1 DEF Usage, Read, Explain, Kill, Exit, Goto
    <3> QED BY <3>1, <2>p DEF Linking
  <2>2. CASE ~(Usage(p) \/ Read(p) \/ Explain(p) \/ Kill(p))
    <3>1. at[p] \in Ahead /\ mem' = mem /\ at[p] # "exited"
      BY <1>6, <2>2 DEF Step, Open, Write, OpenRsp, FillRsp, Spawn, Link, Remove, Ahead
    <3>2. /\ Accepted(mem[p]) /\ code[p] = -1
          /\ Object(p)' = Object(p) /\ Product(p)' = Product(p)
      BY <3>1, <2>p, <1>3 DEF MemoryOK
    <3>3. ObjPath(p) \in Files /\ Out(p) \in Files /\ ObjPath(p) # Rsp /\ Out(p) # Rsp /\ Rsp \in Files
      BY <3>2, <1>a, Words
    <3>g. SUFFICES GoodNext(p, Object(p), Product(p))
      BY <3>2
    <3>4. CASE Open(p)
      BY <3>4, <3>2, <3>3 DEF Open, Put, Goto, Exit, Linking
    <3>5. CASE Write(p)
      <4>1. file[ObjPath(p)] = Partial
        BY <3>5, <1>2 DEF Write
      <4> DEFINE object == C(IF cmd[p].b32 THEN "object32" ELSE "object", mem[p].of, NoPath, NoPath)
      <4>2. \/ /\ file'[ObjPath(p)] = object
               /\ IF ObjectOnly(p) THEN Exit(p, 0)
                  ELSE Goto(p, IF platform = "bundled" THEN "rsp" ELSE "link")
            \/ Exit(p, 1)
        BY <3>5, <3>3, <4>1 DEF Write, Put
      <4>3. args'[p] = Args(ObjPath(p), Out(p))
        BY <3>5 DEF Write
      <4>4. CASE Exit(p, 1)
        BY <4>4, <3>2 DEF Exit, Linking
      <4>5. CASE file'[ObjPath(p)] = object /\ ObjectOnly(p) /\ Exit(p, 0)
        <5>1. object = Product(p) /\ ObjPath(p) = Out(p)
          BY <4>5 DEF Product, ObjectOnly, ObjPath
        <5> HIDE DEF object
        <5> QED BY <4>5, <5>1 DEF Exit, Linking
      <4>6. CASE /\ file'[ObjPath(p)] = object /\ ~ObjectOnly(p)
                 /\ Goto(p, IF platform = "bundled" THEN "rsp" ELSE "link")
        <5>1. object = Object(p)
          BY <4>6 DEF Object, ObjectOnly
        <5>2. at'[p] \in {"rsp", "link"} /\ code'[p] = -1
          BY <4>6, <3>2 DEF Goto
        <5> HIDE DEF object
        <5> QED BY <4>3, <4>6, <5>1, <5>2
      <4> QED BY <4>2, <4>4, <4>5, <4>6
    <3>6. CASE OpenRsp(p)
      <4>1. /\ file'[ObjPath(p)] = file[ObjPath(p)] /\ at[p] \in Linking
            /\ (at'[p] = "fill" /\ code'[p] = -1) \/ (at'[p] = "exited" /\ code'[p] = 1)
        BY <3>6, <3>2, <3>3 DEF OpenRsp, Put, Goto, Exit, Linking
      <4> QED BY <4>1, <1>2 DEF Linking
    <3>7. CASE FillRsp(p)
      <4>1. /\ file'[ObjPath(p)] = file[ObjPath(p)] /\ at[p] \in Linking
            /\ file'[Rsp] = Args(ObjPath(p), Out(p))
            /\ at'[p] = "spawn" /\ code'[p] = -1
        BY <3>7, <3>2, <3>3 DEF FillRsp, Put, Goto, Linking
      <4> QED BY <4>1, <1>2 DEF Linking
    <3>8. CASE Spawn(p)
      <4>1. /\ file' = file /\ at[p] \in Linking
            /\ args'[p] = file[Rsp] /\ at[p] = "spawn"
            /\ at'[p] = "link" /\ code'[p] = -1
        BY <3>8, <3>2 DEF Spawn, Goto, Linking
      <4> QED BY <4>1, <1>2
    <3>9. CASE Link(p)
      <4>1. at[p] = "link" /\ at[p] \in Linking /\ Links(p)
        BY <3>9 DEF Link, Linking, PlaceOK
      <4>2. args[p].obj = ObjPath(p) /\ args[p].exe = Out(p) /\ ObjPath(p) # Out(p)
        BY <4>1, <1>2, <1>d, Contents
      <4>3. file'[ObjPath(p)] = file[ObjPath(p)]
        BY <3>9, <3>3, <4>2 DEF Link, Put
      <4>4. \/ Returned(p, FALSE)
            \/ /\ Returned(p, TRUE) /\ file[ObjPath(p)].k = "object"
               /\ file'[Out(p)] = C("exe", file[ObjPath(p)].of, NoPath, NoPath)
        BY <3>9, <3>3, <4>2 DEF Link, Put
      <4>5. CASE Returned(p, FALSE)
        <5>1. \/ at'[p] = "unlinked" /\ code'[p] = -1
              \/ at'[p] = "exited" /\ code'[p] = 1
          BY <4>5, <3>2 DEF Returned, Goto, Exit
        <5> QED BY <5>1, <4>1, <4>3, <1>2 DEF Linking
      <4>6. CASE /\ Returned(p, TRUE) /\ file[ObjPath(p)].k = "object"
                 /\ file'[Out(p)] = C("exe", file[ObjPath(p)].of, NoPath, NoPath)
        <5>1. file[ObjPath(p)] = Object(p)
          BY <4>1, <4>6, <1>2, <1>k
        <5>2. file'[Out(p)] = Product(p)
          BY <5>1, <4>1, <4>6, <1>k DEF Product, Links, ObjectOnly
        <5>3. \/ at'[p] = "linked" /\ code'[p] = -1
              \/ at'[p] = "exited" /\ code'[p] = 0
          BY <4>6, <3>2 DEF Returned, Goto, Exit
        <5> QED BY <5>2, <5>3, <4>1, <4>3, <1>2 DEF Linking
      <4> QED BY <4>4, <4>5, <4>6
    <3>10. CASE Remove(p)
      <4>1. /\ at'[p] = "exited" /\ (code'[p] = 0 => at[p] = "linked")
            /\ file'[Out(p)] = file[Out(p)]
        BY <3>10, <3>3 DEF Remove, Put, Exit
      <4> QED BY <4>1, <1>2 DEF Linking
    <3> QED BY <1>6, <2>2, <3>4, <3>5, <3>6, <3>7, <3>8, <3>9, <3>10 DEF Step
  <2> QED BY <2>1, <2>2
<1> QED BY <1>4, <1>5, <1>6, Actions DEF Step

-----------------------------------------------------------------------------
(* The loop over the words of a command line *)

\* Every set of numbers has a smallest one.
LEMMA Smallest ==
  ASSUME NEW T \in SUBSET Nat, T # {}
  PROVE \E n \in T : \A m \in T : n <= m
  <1> DEFINE R == {ss \in Nat \X Nat : ss[1] < ss[2]}
  <1>1. IsWellFoundedOn(R, Nat)
    BY NatLessThanWellFounded DEF OpToRel
  <1>r. \A x, y \in Nat : x < y => <<x, y>> \in R
    OBVIOUS
  <1> HIDE DEF R
  <1>2. PICK n \in T : \A m \in T : ~(<<m, n>> \in R)
    BY <1>1, WFMin
  <1>3. \A m \in T : n <= m
    <2> TAKE m \in T
    <2>1. m \in Nat /\ n \in Nat /\ ~(m < n)
      BY <1>r, <1>2
    <2> QED BY <2>1
  <1> QED BY <1>3

Loop == [cmd : Command, value : BOOLEAN]
Start == [cmd |-> NoCommand, value |-> FALSE]

\* A turn of the loop makes a command of a command.
LEMMA TurnType ==
  ASSUME NEW s \in Loop, NEW w \in Word, NEW more \in BOOLEAN
  PROVE  /\ Turn(s, w, more) \in Loop
         /\ s.value => /\ Turn(s, w, more).cmd = [s.cmd EXCEPT !.out = w]
                       /\ ~Turn(s, w, more).value
         /\ ~s.value /\ w = Dash /\ more =>
              Turn(s, w, more).cmd = s.cmd /\ Turn(s, w, more).value
         /\ ~s.value /\ ~(w = Dash /\ more) =>
              /\ Turn(s, w, more).cmd = WordTaken(s.cmd, w)
              /\ ~Turn(s, w, more).value
<1>1. s.cmd \in Command /\ s.value \in BOOLEAN /\ s = [cmd |-> s.cmd, value |-> s.value]
  BY DEF Loop
<1>2. [s.cmd EXCEPT !.out = w] \in Command /\ WordTaken(s.cmd, w) \in Command
  BY <1>1 DEF Command, WordTaken, Word, Flags
<1>3. CASE s.value
  BY <1>1, <1>2, <1>3 DEF Turn, Loop
<1>4. CASE ~s.value /\ w = Dash /\ more
  BY <1>1, <1>4 DEF Turn, Loop
<1>5. CASE ~s.value /\ ~(w = Dash /\ more)
  BY <1>1, <1>2, <1>5 DEF Turn, Loop
<1> QED BY <1>1, <1>3, <1>4, <1>5

\* The loop is what its turns make of it.
LEMMA LoopTurns ==
  ASSUME NEW ws \in Seq(Word)
  PROVE  /\ After(ws) \in [0..Len(ws) -> Loop]
         /\ After(ws)[0] = Start
         /\ \A n \in 1..Len(ws) : After(ws)[n] = Turn(After(ws)[n - 1], ws[n], n < Len(ws))
<1> DEFINE L == Len(ws)
           Good(g, n) == /\ g \in [0..n -> Loop] /\ g[0] = Start
                         /\ \A i \in 1..n : g[i] = Turn(g[i - 1], ws[i], i < L)
<1>1. L \in Nat /\ \A i \in 1..L : ws[i] \in Word
  OBVIOUS
<1>s. Start \in Loop
  BY DEF Start, Loop, NoCommand, Command
<1>2. \A n \in 0..L : \E g : Good(g, n)
  <2> DEFINE T == {n \in 0..L : ~ \E g : Good(g, n)}
  <2>1. SUFFICES ASSUME T # {} PROVE FALSE
    OBVIOUS
  <2>2. PICK n \in T : \A m \in T : n <= m
    <3>1. T \in SUBSET Nat
      BY <1>1
    <3> HIDE DEF T
    <3> QED BY <2>1, <3>1, Smallest
  <2>3. n # 0
    <3>1. Good([i \in 0..0 |-> Start], 0)
      BY <1>s
    <3> QED BY <3>1
  <2>4. n - 1 \in 0..L /\ n - 1 \notin T /\ n \in 1..L
    <3>1. n \in 0..L /\ n \in Nat
      BY <1>1
    <3>2. n - 1 \in 0..L /\ n \in 1..L /\ ~(n <= n - 1)
      BY <3>1, <2>3, <1>1
    <3> QED BY <3>2, <2>2
  <2>5. PICK g : Good(g, n - 1)
    BY <2>4
  <2> DEFINE h == [i \in 0..n |-> IF i = n THEN Turn(g[n - 1], ws[n], n < L) ELSE g[i]]
  <2>6. g[n - 1] \in Loop /\ \A i \in 0..(n - 1) : g[i] \in Loop
    BY <2>4, <2>5
  <2>7. Turn(g[n - 1], ws[n], n < L) \in Loop
    <3>1. ws[n] \in Word /\ (n < L) \in BOOLEAN
      BY <2>4, <1>1
    <3> QED BY <3>1, <2>6, TurnType
  <2>8. h \in [0..n -> Loop] /\ h[0] = Start
    BY <2>3, <2>4, <2>5, <2>6, <2>7
  <2>9. \A i \in 1..n : h[i] = Turn(h[i - 1], ws[i], i < L)
    BY <2>4, <2>5
  <2>10. Good(h, n)
    BY <2>8, <2>9
  <2> QED BY <2>2, <2>10
<1>3. PICK g : Good(g, L)
  BY <1>1, <1>2
<1> DEFINE F(f) == [n \in 0..Len(ws) |->
                      IF n = 0 THEN [cmd |-> NoCommand, value |-> FALSE]
                      ELSE Turn(f[n - 1], ws[n], n < Len(ws))]
<1>4. g = F(g)
  BY <1>1, <1>3 DEF Start
<1>5. After(ws) = CHOOSE f : f = F(f)
  BY DEF After
<1>6. After(ws) = F(After(ws))
  BY <1>4, <1>5
<1> DEFINE a == After(ws)
<1>7. /\ DOMAIN a = 0..L /\ a = [n \in 0..L |-> a[n]] /\ a[0] = Start
      /\ \A n \in 1..L : a[n] = Turn(a[n - 1], ws[n], n < L)
  <2> DEFINE G(n) == IF n = 0 THEN [cmd |-> NoCommand, value |-> FALSE]
                     ELSE Turn(a[n - 1], ws[n], n < Len(ws))
  <2>1. a = [n \in 0..Len(ws) |-> G(n)]
    BY <1>6
  <2> HIDE DEF G, a
  <2>2. DOMAIN a = 0..L /\ a = [n \in 0..L |-> a[n]] /\ \A n \in 0..L : a[n] = G(n)
    BY <2>1
  <2>3. a[0] = Start
    BY <2>2, <1>1 DEF G, Start
  <2>4. ASSUME NEW n \in 1..L PROVE a[n] = Turn(a[n - 1], ws[n], n < L)
    <3>1. n \in 0..L /\ n # 0
      OBVIOUS
    <3>2. a[n] = G(n)
      BY <2>2, <3>1
    <3> QED BY <1>1, <3>1, <3>2 DEF G
  <2> QED BY <2>2, <2>3, <2>4
<1> HIDE DEF a
<1>8. \A n \in 0..L : a[n] \in Loop
  <2> DEFINE T == {n \in 0..L : a[n] \notin Loop}
  <2> SUFFICES ASSUME T # {} PROVE FALSE
    OBVIOUS
  <2>1. PICK n \in T : \A m \in T : n <= m
    <3>1. T \in SUBSET Nat /\ T # {}
      BY <1>1
    <3> HIDE DEF T
    <3> QED BY <3>1, Smallest
  <2>2. n \in 1..L /\ n - 1 \in 0..L /\ n - 1 \notin T
    <3>1. n \in 0..L /\ n \in Nat /\ n # 0
      BY <1>1, <1>7, <1>s
    <3>2. n - 1 \in 0..L /\ n \in 1..L /\ ~(n <= n - 1)
      BY <3>1, <1>1
    <3> QED BY <3>2, <2>1
  <2>3. a[n - 1] \in Loop
    BY <2>2
  <2>4. a[n] \in Loop
    <3>1. ws[n] \in Word /\ (n < L) \in BOOLEAN
      BY <2>2, <1>1
    <3>2. Turn(a[n - 1], ws[n], n < L) \in Loop
      BY <3>1, <2>3, TurnType
    <3> QED BY <3>2, <2>2, <1>7
  <2> QED BY <2>1, <2>4
<1> QED BY <1>7, <1>8 DEF a

\* So a command line makes a command.
LEMMA ParsedType ==
  ASSUME NEW ws \in Seq(Word)
  PROVE  Parsed(ws) \in Command
<1>1. Len(ws) \in 0..Len(ws)
  OBVIOUS
<1>2. After(ws)[Len(ws)] \in Loop
  BY <1>1, LoopTurns
<1> QED BY <1>2 DEF Parsed, Loop

\* Which words belong to an -o is determined, and it is those the loop takes.
LEMMA ValuesAreTaken ==
  ASSUME NEW ws \in Seq(Word)
  PROVE  /\ Values(ws) \subseteq 1..Len(ws)
         /\ \A i \in 1..Len(ws) :
              i \in Values(ws) <=> i > 1 /\ ws[i - 1] = Dash /\ i - 1 \notin Values(ws)
         /\ \A n \in 0..(Len(ws) - 1) : After(ws)[n].value <=> n + 1 \in Values(ws)
<1> DEFINE L == Len(ws)
           a == After(ws)
           Fits(vs) == \A i \in DOMAIN ws :
                         i \in vs <=> i > 1 /\ ws[i - 1] = Dash /\ i - 1 \notin vs
           W == {i \in 1..L : a[i - 1].value}
<1>1. L \in Nat /\ DOMAIN ws = 1..L /\ \A i \in 1..L : ws[i] \in Word
  OBVIOUS
<1>2. /\ \A n \in 0..L : a[n] \in Loop
      /\ ~a[0].value
      /\ \A n \in 1..L : a[n] = Turn(a[n - 1], ws[n], n < L)
  BY LoopTurns DEF Start
<1> HIDE DEF a
<1>3. \A n \in 1..L : a[n].value <=> ~a[n - 1].value /\ ws[n] = Dash /\ n < L
  <2> TAKE n \in 1..L
  <2>1. n - 1 \in 0..L /\ ws[n] \in Word /\ (n < L) \in BOOLEAN
    BY <1>1
  <2>2. a[n - 1] \in Loop /\ a[n - 1].value \in BOOLEAN
    BY <2>1, <1>2 DEF Loop
  <2>3. PICK more \in BOOLEAN : more = (n < L)
    BY <2>1
  <2>4. a[n] = Turn(a[n - 1], ws[n], more)
    <3>1. a[n] = Turn(a[n - 1], ws[n], n < L)
      BY <1>2
    <3> QED BY <2>3, <3>1, Zenon
  <2>5. more <=> n < L
    BY <2>3
  <2>6. PICK s \in Loop : s = a[n - 1]
    BY <2>2
  <2>7. /\ s.value => ~Turn(s, ws[n], more).value
        /\ ~s.value /\ ws[n] = Dash /\ more => Turn(s, ws[n], more).value
        /\ ~s.value /\ ~(ws[n] = Dash /\ more) => ~Turn(s, ws[n], more).value
    BY <2>1, TurnType
  <2>8. a[n].value <=> ~s.value /\ ws[n] = Dash /\ more
    BY <2>4, <2>6, <2>7
  <2> QED BY <2>5, <2>6, <2>8
<1>4. Fits(W)
  <2> SUFFICES ASSUME NEW i \in 1..L
               PROVE  i \in W <=> i > 1 /\ ws[i - 1] = Dash /\ i - 1 \notin W
    BY <1>1
  <2>1. i \in W <=> a[i - 1].value
    OBVIOUS
  <2>2. CASE i = 1
    BY <2>1, <2>2, <1>2
  <2>3. CASE i # 1
    <3>1. i - 1 \in 1..L /\ i - 1 < L /\ i > 1
      BY <2>3, <1>1
    <3>2. i - 1 \in W <=> a[(i - 1) - 1].value
      BY <3>1
    <3> QED BY <2>1, <3>1, <3>2, <1>3
  <2> QED BY <2>2, <2>3
<1>5. W \in SUBSET DOMAIN ws
  BY <1>1
<1>6. Values(ws) = CHOOSE vs \in SUBSET DOMAIN ws : Fits(vs)
  BY DEF Values
<1>7. Values(ws) \in SUBSET DOMAIN ws /\ Fits(Values(ws))
  <2> HIDE DEF Fits, W
  <2> QED BY <1>4, <1>5, <1>6
<1> DEFINE V == Values(ws)
<1> HIDE DEF V
<1>8. \A n \in 0..(L - 1) : a[n].value <=> n + 1 \in V
  <2> DEFINE T == {n \in 0..(L - 1) : ~(a[n].value <=> n + 1 \in V)}
  <2> SUFFICES ASSUME T # {} PROVE FALSE
    OBVIOUS
  <2>1. PICK n \in T : \A m \in T : n <= m
    <3>1. T \in SUBSET Nat /\ T # {}
      BY <1>1
    <3> HIDE DEF T
    <3> QED BY <3>1, Smallest
  <2>2. n \in 0..(L - 1) /\ ~(a[n].value <=> n + 1 \in V) /\ n \in Nat
    BY <1>1
  <2>3. n + 1 \in 1..L
    BY <2>2, <1>1
  <2>4. n + 1 \in V <=> n + 1 > 1 /\ ws[(n + 1) - 1] = Dash /\ (n + 1) - 1 \notin V
    BY <2>3, <1>1, <1>7 DEF V
  <2>5. n + 1 \in V <=> n > 0 /\ ws[n] = Dash /\ n \notin V
    BY <2>2, <2>4
  <2>6. n # 0
    BY <2>2, <2>5, <1>2
  <2>7. n \in 1..L /\ n < L /\ n - 1 \in 0..(L - 1) /\ ~(n <= n - 1) /\ (n - 1) + 1 = n
    BY <2>2, <2>6, <1>1
  <2>8. a[n - 1].value <=> n \in V
    BY <2>1, <2>7
  <2> QED BY <2>2, <2>5, <2>7, <2>8, <1>3
<1> QED BY <1>1, <1>7, <1>8 DEF a, V

\* the last of some words of a line
LastOf(ws, is) == IF is = {} THEN NoPath ELSE ws[CHOOSE i \in is : \A j \in is : j <= i]

\* A word behind all the others is the last one.
LEMMA LastIsNew ==
  ASSUME NEW ws, NEW is \in SUBSET Nat, NEW n \in is, \A j \in is : j <= n
  PROVE  LastOf(ws, is) = ws[n]
<1> DEFINE Greatest(i) == \A j \in is : j <= i
<1>1. \A i \in is : Greatest(i) => i = n
  <2> TAKE i \in is
  <2> HAVE Greatest(i)
  <2>1. i <= n /\ n <= i /\ i \in Nat /\ n \in Nat
    OBVIOUS
  <2> QED BY <2>1
<1>2. Greatest(n)
  OBVIOUS
<1> DEFINE g == CHOOSE i \in is : Greatest(i)
<1>3. g \in is /\ Greatest(g)
  <2> HIDE DEF Greatest
  <2> QED BY <1>2
<1>4. g = n
  <2> HIDE DEF g, Greatest
  <2> QED BY <1>1, <1>3
<1>5. is # {}
  OBVIOUS
<1>6. LastOf(ws, is) = ws[g]
  BY <1>5 DEF LastOf
<1> QED BY <1>4, <1>6

\* the words that name an input: an -o does only where nothing is behind it
Inputs(ws, is) == {i \in is : ws[i] \in Path /\ (ws[i] = Dash => i = Len(ws))}

\* what the loop has made of the first words of a line: the words behind an -o
\* give the output, the others the flags and the input
ReadTo(ws, n) ==
  LET free == 1..n \ Values(ws)
      c    == After(ws)[n].cmd
  IN  /\ c.in = LastOf(ws, Inputs(ws, free))
      /\ c.out = LastOf(ws, Values(ws) \cap 1..n)
      /\ c.b32 <=> \E i \in free : ws[i] = Option("-32")
      /\ c.c <=> \E i \in free : ws[i] = Option("-c")

\* The loop reads a line word by word as it is read as a whole.
LEMMA LoopReads ==
  ASSUME NEW ws \in Seq(Word)
  PROVE  \A n \in 0..Len(ws) : ReadTo(ws, n)
<1> DEFINE L == Len(ws)
           a == After(ws)
           V == Values(ws)
           Free(n) == 1..n \ V
           Paths(n) == {i \in Free(n) : ws[i] \in Path /\ (ws[i] = Dash => i = L)}
           Good(n) == /\ a[n].cmd.in = LastOf(ws, Paths(n))
                      /\ a[n].cmd.out = LastOf(ws, V \cap 1..n)
                      /\ a[n].cmd.b32 <=> \E i \in Free(n) : ws[i] = Option("-32")
                      /\ a[n].cmd.c <=> \E i \in Free(n) : ws[i] = Option("-c")
<1>0. \A n : Good(n) => ReadTo(ws, n)
  BY DEF ReadTo, Inputs
<1>1. L \in Nat /\ \A i \in 1..L : ws[i] \in Word
  OBVIOUS
<1>2. /\ \A n \in 0..L : a[n] \in Loop
      /\ a[0] = Start
      /\ \A n \in 1..L : a[n] = Turn(a[n - 1], ws[n], n < L)
  BY LoopTurns
<1>3. V \subseteq 1..L /\ \A n \in 0..(L - 1) : a[n].value <=> n + 1 \in V
  BY ValuesAreTaken
<1>4. LastOf(ws, {}) = NoPath
  BY DEF LastOf
<1>5. /\ \A w \in Word : w \in Path \/ w \in Flags
      /\ Flags = {Option("-32"), Option("-c")} /\ Flags \cap Path = {}
      /\ Dash \in Path /\ Option("-32") # Option("-c")
  BY Words DEF Flags, Word
<1> HIDE DEF a, V
<1>6. Good(0)
  <2>1. Free(0) = {} /\ Paths(0) = {} /\ V \cap 1..0 = {}
    OBVIOUS
  <2>2. a[0].cmd = NoCommand
    BY <1>2 DEF Start
  <2> QED BY <2>1, <2>2, <1>4 DEF NoCommand
<1>7. ASSUME NEW n \in 1..L, Good(n - 1)
      PROVE  Good(n)
  <2>1. /\ n \in Nat /\ n - 1 \in 0..L /\ n - 1 \in 0..(L - 1) /\ (n - 1) + 1 = n /\ n - 1 # L
        /\ 1..n = 1..(n - 1) \cup {n} /\ ws[n] \in Word
    BY <1>1
  <2>2. PICK s \in Loop : s = a[n - 1]
    BY <2>1, <1>2
  <2>3. s.value <=> n \in V
    BY <2>1, <2>2, <1>3
  <2>4. PICK more \in BOOLEAN : more = (n < L)
    <3>1. (n < L) \in BOOLEAN
      BY <1>1
    <3> QED BY <3>1
  <2>5. a[n] = Turn(s, ws[n], more)
    <3>1. a[n] = Turn(a[n - 1], ws[n], n < L)
      BY <1>2
    <3> QED BY <2>2, <2>4, <3>1, Zenon
  <2>6. more <=> n # L
    <3>1. more <=> n < L
      BY <2>4
    <3> QED BY <3>1, <1>1
  <2>7. /\ s.cmd.in = LastOf(ws, Paths(n - 1))
        /\ s.cmd.out = LastOf(ws, V \cap 1..(n - 1))
        /\ s.cmd.b32 <=> \E i \in Free(n - 1) : ws[i] = Option("-32")
        /\ s.cmd.c <=> \E i \in Free(n - 1) : ws[i] = Option("-c")
    BY <1>7, <2>1, <2>2
  <2>c. s.cmd \in Command
    BY DEF Loop
  <2>t. /\ s.value => /\ Turn(s, ws[n], more).cmd = [s.cmd EXCEPT !.out = ws[n]]
                      /\ ~Turn(s, ws[n], more).value
        /\ ~s.value /\ ws[n] = Dash /\ more => Turn(s, ws[n], more).cmd = s.cmd
        /\ ~s.value /\ ~(ws[n] = Dash /\ more) =>
             Turn(s, ws[n], more).cmd = WordTaken(s.cmd, ws[n])
    BY <2>1, TurnType
  <2>8. CASE n \in V
    <3>1. ~a[n].value /\ a[n].cmd = [s.cmd EXCEPT !.out = ws[n]]
      BY <2>3, <2>5, <2>8, <2>t
    <3>2. /\ a[n].cmd.in = s.cmd.in /\ a[n].cmd.out = ws[n]
          /\ (a[n].cmd.b32 <=> s.cmd.b32) /\ (a[n].cmd.c <=> s.cmd.c)
      BY <3>1, <2>c DEF Command
    <3>3. Free(n) = Free(n - 1) /\ Paths(n) = Paths(n - 1)
      BY <2>1, <2>8
    <3>4. LastOf(ws, V \cap 1..n) = ws[n]
      <4>1. V \cap 1..n \in SUBSET Nat /\ n \in V \cap 1..n /\ \A j \in V \cap 1..n : j <= n
        BY <2>8
      <4> QED BY <4>1, LastIsNew
    <3> HIDE DEF Free, Paths
    <3> QED BY <3>2, <3>3, <3>4, <2>7
  <2>n. ASSUME n \notin V
        PROVE  /\ V \cap 1..n = V \cap 1..(n - 1) /\ Free(n) = Free(n - 1) \cup {n}
               /\ ws[n] \notin Path \/ (ws[n] = Dash /\ n # L) => Paths(n) = Paths(n - 1)
               /\ ws[n] \in Path /\ (ws[n] = Dash => n = L) => LastOf(ws, Paths(n)) = ws[n]
    <3>1. /\ V \cap 1..n = V \cap 1..(n - 1) /\ Free(n) = Free(n - 1) \cup {n}
          /\ ws[n] \notin Path \/ (ws[n] = Dash /\ n # L) => Paths(n) = Paths(n - 1)
      BY <2>1, <2>n
    <3>2. ASSUME ws[n] \in Path, ws[n] = Dash => n = L PROVE LastOf(ws, Paths(n)) = ws[n]
      <4>1. Paths(n) \in SUBSET Nat /\ n \in Paths(n) /\ \A j \in Paths(n) : j <= n
        BY <2>n, <3>2
      <4> HIDE DEF Paths
      <4> QED BY <4>1, LastIsNew
    <3> QED BY <3>1, <3>2
  <2>9. CASE n \notin V /\ ws[n] = Dash /\ n # L
    <3>1. a[n].cmd = s.cmd
      BY <2>3, <2>5, <2>6, <2>9, <2>t
    <3>2. ws[n] # Option("-32") /\ ws[n] # Option("-c")
      BY <2>9, <1>5
    <3> HIDE DEF Free, Paths
    <3> QED BY <3>1, <3>2, <2>n, <2>9, <2>7
  <2>10. CASE n \notin V /\ ~(ws[n] = Dash /\ n # L)
    <3>1. a[n].cmd = WordTaken(s.cmd, ws[n])
      BY <2>3, <2>5, <2>6, <2>10, <2>t
    <3>3. CASE ws[n] = Option("-32")
      <4>1. a[n].cmd = [s.cmd EXCEPT !.b32 = TRUE]
        BY <3>1, <3>3, <1>5 DEF WordTaken
      <4>2. /\ a[n].cmd.in = s.cmd.in /\ a[n].cmd.out = s.cmd.out
            /\ a[n].cmd.b32 /\ (a[n].cmd.c <=> s.cmd.c)
        BY <4>1, <2>c DEF Command
      <4>3. ws[n] \notin Path /\ ws[n] # Option("-c")
        BY <3>3, <1>5
      <4> HIDE DEF Free, Paths
      <4> QED BY <4>2, <4>3, <3>3, <2>n, <2>10, <2>7
    <3>4. CASE ws[n] = Option("-c")
      <4>1. a[n].cmd = [s.cmd EXCEPT !.c = TRUE]
        BY <3>1, <3>4, <1>5 DEF WordTaken
      <4>2. /\ a[n].cmd.in = s.cmd.in /\ a[n].cmd.out = s.cmd.out
            /\ a[n].cmd.c /\ (a[n].cmd.b32 <=> s.cmd.b32)
        BY <4>1, <2>c DEF Command
      <4>3. ws[n] \notin Path /\ ws[n] # Option("-32")
        BY <3>4, <1>5
      <4> HIDE DEF Free, Paths
      <4> QED BY <4>2, <4>3, <3>4, <2>n, <2>10, <2>7
    <3>5. CASE ws[n] # Option("-32") /\ ws[n] # Option("-c")
      <4>1. a[n].cmd = [s.cmd EXCEPT !.in = ws[n]]
        BY <3>1, <3>5 DEF WordTaken
      <4>2. /\ a[n].cmd.in = ws[n] /\ a[n].cmd.out = s.cmd.out
            /\ (a[n].cmd.b32 <=> s.cmd.b32) /\ (a[n].cmd.c <=> s.cmd.c)
        BY <4>1, <2>c DEF Command
      <4>3. ws[n] \in Path /\ (ws[n] = Dash => n = L)
        BY <3>5, <2>1, <2>6, <2>10, <1>5
      <4>4. a[n].cmd.in = LastOf(ws, Paths(n))
        <5> HIDE DEF Paths
        <5> QED BY <4>2, <4>3, <2>n, <2>10
      <4> HIDE DEF Free, Paths
      <4> QED BY <4>2, <4>4, <3>5, <2>n, <2>10, <2>7
    <3> QED BY <3>3, <3>4, <3>5
  <2> QED BY <2>8, <2>9, <2>10
<1> HIDE DEF Good
<1>8. \A n \in 0..L : Good(n)
  <2> DEFINE T == {n \in 0..L : ~Good(n)}
  <2> SUFFICES ASSUME T # {} PROVE FALSE
    OBVIOUS
  <2>1. PICK n \in T : \A m \in T : n <= m
    <3>1. T \in SUBSET Nat /\ T # {}
      BY <1>1
    <3> HIDE DEF T
    <3> QED BY <3>1, Smallest
  <2>2. n \in 1..L /\ n - 1 \in 0..L /\ n - 1 \notin T
    <3>1. n \in 0..L /\ n \in Nat /\ n # 0
      BY <1>1, <1>6
    <3>2. n - 1 \in 0..L /\ n \in 1..L /\ ~(n <= n - 1)
      BY <3>1, <1>1
    <3> QED BY <3>2, <2>1
  <2>3. Good(n - 1)
    BY <2>2
  <2> QED BY <2>1, <2>2, <2>3, <1>7
<1> QED BY <1>0, <1>8

-----------------------------------------------------------------------------
(* The invariant *)

\* The runs start with what their command lines say, and without a response
\* file.
LEMMA InitHolds == ASSUME Init PROVE RunInv
<1>1. TypeOK
  <2>1. \A p \in Run : argv[p] \in Seq(Word)
    BY DriverAssumption DEF Init
  <2>2. cmd \in [Run -> Command]
    BY <2>1, ParsedType DEF Init
  <2>3. \A f \in Path : C("source", <<f, 0>>, NoPath, NoPath) \in Content
    <3>1. \A f \in Path : <<f, 0>> \in Made
      BY DriverAssumption DEF Made
    <3>2. "source" \in Kinds
      BY DEF Kinds
    <3> QED BY <3>1, <3>2, Contents
  <2>4. file \in [Files -> Content]
    <3>1. \A p \in Run : cmd[p].in # NoPath => cmd[p].in \in Path
      BY <2>2 DEF Command
    <3> QED BY <2>3, <3>1, Contents DEF Init
  <2> QED BY <2>2, <2>4, Contents DEF Init, TypeOK
<1>2. CommandOK
  BY DEF Init, CommandOK
<1>3. /\ \A p \in Run : /\ at[p] = "read" /\ code[p] = -1
                        /\ mem[p] = Absent /\ args[p] = Absent
      /\ \A f \in Files :
           file[f] = (IF \E p \in Run : f = cmd[p].in /\ f # NoPath
                      THEN C("source", <<f, 0>>, NoPath, NoPath)
                      ELSE IF \E p \in Run : f = Out(p) THEN OldOutput ELSE Absent)
  BY DEF Init
<1>s. ASSUME NEW f, NEW p \in Run, f = cmd[p].in, f # NoPath
      PROVE  f \in Path /\ f \in Files /\ file[f].k = "source" /\ file[f].of = <<f, 0>>
  <2>1. f \in Path /\ f \in Files
    BY <1>1, <1>s, Names, Words
  <2>2. file[f] = C("source", <<f, 0>>, NoPath, NoPath)
    BY <2>1, <1>s, <1>3
  <2> QED BY <2>1, <2>2 DEF C
<1>4. MemoryOK /\ PlaceOK /\ ProgressOK
  BY <1>3, Contents DEF MemoryOK, PlaceOK, ProgressOK, Ahead, Linking
<1>5. FilesOK
  <2> SUFFICES ASSUME NEW f \in Files, file[f].k = "source"
               PROVE  /\ f \in Path /\ file[f].of[1] = f
                      /\ \E q \in Run : f = cmd[q].in
    BY DEF FilesOK
  <2>1. PICK q \in Run : f = cmd[q].in /\ f # NoPath
    BY <1>3, Contents
  <2>2. f \in Path /\ file[f].of = <<f, 0>>
    BY <2>1, <1>s
  <2> QED BY <2>1, <2>2
<1>6. file[Rsp] = Absent
  <2>1. ASSUME NEW p \in Run PROVE Out(p) # Rsp
    <3>1. cmd[p].out \in Word \cup {NoPath}
      BY <1>1 DEF TypeOK, Command
    <3>2. \A x : <<x, "o">> # Rsp /\ <<x, "">> # Rsp /\ <<x, "exe">> # Rsp
      BY Words
    <3> QED BY <3>1, <3>2, Words DEF Out
  <2>2. \A p \in Run : cmd[p].in # Rsp
    BY <1>1, Words DEF TypeOK, Command
  <2> QED BY <2>1, <2>2, <1>3, Words
<1>7. ArgsOK /\ RspOK
  BY <1>3, <1>6, Contents DEF ArgsOK, RspOK
<1>8. UntouchedOK
  <2> SUFFICES ASSUME NEW p \in Run, Apart(p), cmd[p].in # Out(p)
               PROVE  cmd[p].in # NoPath => file[Out(p)] = OldOutput /\ file[cmd[p].in].k = "source"
    BY <1>3 DEF UntouchedOK
  <2>1. \A q \in Run : Out(p) # cmd[q].in
    BY DEF Apart
  <2> HAVE cmd[p].in # NoPath
  <2>2. Out(p) \in Files
    BY <1>1, Names, Words
  <2>3. file[Out(p)] = OldOutput
    BY <1>3, <2>1, <2>2
  <2> QED BY <2>3, <1>s
<1>9. SourcesKept
  BY <1>s DEF SourcesKept
<1> QED BY <1>1, <1>2, <1>4, <1>5, <1>7, <1>8, <1>9 DEF RunInv

\* Every step of a run, an editor or a kill keeps the invariant.
LEMMA StepHolds == ASSUME RunInv, [Next]_vars PROVE RunInv'
<1> USE DEF RunInv
<1>1. TypeOK'
  BY TypeStep
<1>2. CommandOK'
  BY CommandKept DEF CommandOK
<1>3. MemoryOK'
  BY <1>1, MemoryStep
<1>4. PlaceOK' /\ FilesOK' /\ ArgsOK' /\ RspOK'
  BY PlaceStep, FilesStep, ArgsStep, RspStep
<1>5. ProgressOK' /\ UntouchedOK' /\ SourcesKept'
  BY <1>1, ProgressStep, UntouchedStep, SourcesStep
<1> QED BY <1>1, <1>2, <1>3, <1>4, <1>5

\* The inductive invariant of the driver (main.cpp): where every run stands,
\* and what memory, files and the response file hold there.
THEOREM RunCorrect == Spec => []RunInv
<1>1. Init => RunInv
  BY InitHolds
<1>2. RunInv /\ [Next]_vars => RunInv'
  BY StepHolds
<1> QED BY <1>1, <1>2, PTL DEF Spec

-----------------------------------------------------------------------------
(* The properties *)

\* Files, memories and exit codes are what they can be, whatever the runs do
\* to each other's files; a linker's exit code is never passed on as it is.
THEOREM TypeCorrect == Spec => []TypeOK
<1>1. RunInv => TypeOK
  BY DEF RunInv
<1> QED BY <1>1, RunCorrect, PTL

\* An exit with 0 means that the output is what the run made of the source it
\* read, for a run on files of its own that has the response file to itself.
THEOREM SuccessIsTrueCorrect == Spec => []SuccessIsTrue
<1>1. RunInv => SuccessIsTrue
  BY DEF RunInv, ProgressOK, SuccessIsTrue, Alone
<1> QED BY <1>1, RunCorrect, PTL

\* A source that does not compile costs nothing of an earlier build, and the
\* message shows a line of the version that was read or of a later one.
THEOREM RejectionKeepsOutputCorrect == Spec => []RejectionKeepsOutput
<1>1. ASSUME RunInv PROVE RejectionKeepsOutput
  <2> SUFFICES ASSUME NEW p \in Run, code[p] = 1, mem[p] # Absent, ~Accepted(mem[p]),
                      Apart(p), cmd[p].in # Out(p)
               PROVE  /\ file[Out(p)] = OldOutput
                      /\ shown[p].k = "source" /\ shown[p].of[1] = cmd[p].in
                      /\ shown[p].of[2] >= mem[p].of[2]
    BY DEF RejectionKeepsOutput
  <2>1. at[p] = "exited"
    BY <1>1 DEF RunInv, PlaceOK
  <2> QED BY <1>1, <2>1 DEF RunInv, UntouchedOK
<1> QED BY <1>1, RunCorrect, PTL

\* A build overwrites a source only where -o or the name derived for an output
\* is the source's own.
THEOREM SourcesKeptCorrect == Spec => []SourcesKept
<1>1. RunInv => SourcesKept
  BY DEF RunInv
<1> QED BY <1>1, RunCorrect, PTL

\* Runs that have all exited by themselves leave no response file.
THEOREM ResponseRemovedCorrect == Spec => []ResponseRemoved
<1>1. RunInv => ResponseRemoved
  BY DEF RunInv, RspOK, ResponseRemoved, Using
<1> QED BY <1>1, RunCorrect, PTL

\* A command line of any length means the same in whatever order, and a run
\* whose line names no input has read no file and exits with nothing but 1.
THEOREM CommandLineIsReadCorrect == Spec => []CommandLineIsRead
<1>1. ASSUME RunInv, NEW p \in Run
      PROVE  LET ws     == argv[p]
                 free   == DOMAIN ws \ Values(ws)
                 inputs == Inputs(ws, free)
             IN  /\ cmd[p].in = LastOf(ws, inputs)
                 /\ cmd[p].out = LastOf(ws, Values(ws))
                 /\ cmd[p].b32 = (\E i \in free : ws[i] = Option("-32"))
                 /\ cmd[p].c = (\E i \in free : ws[i] = Option("-c"))
                 /\ inputs = {} => mem[p] = Absent /\ code[p] \in {-1, 1}
  <2> DEFINE ws     == argv[p]
             free   == DOMAIN ws \ Values(ws)
             inputs == Inputs(ws, free)
  <2>1. ws \in Seq(Word) /\ cmd[p] = Parsed(ws) /\ cmd[p] \in Command
    BY <1>1, DriverAssumption DEF RunInv, TypeOK, CommandOK
  <2> HIDE DEF ws
  <2>2. ReadTo(ws, Len(ws))
    BY <2>1, LoopReads
  <2>3. free = 1..Len(ws) \ Values(ws) /\ Values(ws) \cap 1..Len(ws) = Values(ws)
    BY <2>1, ValuesAreTaken
  <2>4. /\ cmd[p].in = LastOf(ws, inputs)
        /\ cmd[p].out = LastOf(ws, Values(ws))
        /\ cmd[p].b32 <=> \E i \in free : ws[i] = Option("-32")
        /\ cmd[p].c <=> \E i \in free : ws[i] = Option("-c")
    BY <2>1, <2>2, <2>3 DEF ReadTo, Parsed
  <2>5. cmd[p].b32 \in BOOLEAN /\ cmd[p].c \in BOOLEAN
    BY <2>1 DEF Command
  <2>6. ASSUME inputs = {} PROVE mem[p] = Absent /\ code[p] \in {-1, 1}
    <3>1. cmd[p].in = NoPath
      BY <2>4, <2>6 DEF LastOf
    <3> QED BY <1>1, <3>1 DEF RunInv, MemoryOK
  <2> QED BY <2>4, <2>5, <2>6 DEF ws
<1>2. ASSUME RunInv PROVE CommandLineIsRead
  BY <1>1, <1>2 DEF CommandLineIsRead, LastOf, Inputs
<1> QED BY <1>2, RunCorrect, PTL
=============================================================================
