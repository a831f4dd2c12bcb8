--------------------------------- MODULE Driver ---------------------------------
(***************************************************************************)
(* Runs of shinec (src/main.cpp) on one machine: several processes that    *)
(* share the file system, each with the command line it was started with.  *)
(* A run reads its source, compiles it in memory, writes an object and has *)
(* a linker make the executable.  The steps are the accesses to files that *)
(* another run, an editor or a crash can come between.                     *)
(*                                                                         *)
(* The compilation itself is modules ShineProgram to Compiler; here a      *)
(* version of a source is accepted or not.                                 *)
(***************************************************************************)
EXTENDS Integers, Sequences

CONSTANTS Run,         \* processes
          Stem, None,  \* other file names than -o, without extension; no name
          CommandLines, \* what the runs may be started with, sequences of words
          Valid,       \* the versions of a source that compile
          MaxVersion   \* bound: edits of a source

Extensions == {"", "shine", "o", "exe"}
Path   == (Stem \cup {"-o"}) \X Extensions
NoPath == <<None, "">>
Rsp    == <<None, "rsp">>   \* shine-link.rsp in the directory for temporary files

\* A word of a command line is a path or a flag.  An -o with no word behind it
\* is a path, a file that may be there like any other; a flag never names the
\* input, but behind an -o the output.
Dash      == <<"-o", "">>
Option(w) == <<None, w>>
Flags     == {Option("-32"), Option("-c")}
Word      == Path \cup Flags
Files     == Word \cup {Rsp}

Command == [in : Path \cup {NoPath}, out : Word \cup {NoPath}, b32 : BOOLEAN, c : BOOLEAN]

Platforms == {"unix", "windows", "bundled"}  \* bundled: windows with toolchain/bin/ld.exe

\* what a file holds: `of` is the source and version it is, or was made from;
\* a response file names the object to read and the executable to write; of a
\* file that is still being written a run may read nothing at all
Kinds == {"absent", "partial", "empty", "source", "object", "object32", "exe", "response"}
Made == (Path \cup {NoPath}) \X (0..MaxVersion)
Content == [k : Kinds, of : Made, obj : Word \cup {NoPath}, exe : Word \cup {NoPath}]

C(k, of, obj, exe) == [k |-> k, of |-> of, obj |-> obj, exe |-> exe]
Nothing   == <<NoPath, 0>>
Absent    == C("absent", Nothing, NoPath, NoPath)
Partial   == C("partial", Nothing, NoPath, NoPath)
Empty     == C("empty", Nothing, NoPath, NoPath)
OldOutput == C("exe", Nothing, NoPath, NoPath)   \* of an earlier build
Args(obj, exe) == C("response", Nothing, obj, exe)

ASSUME DriverAssumption ==
  /\ None \notin Stem \cup {"-o"} /\ CommandLines \subseteq Seq(Word)
  /\ MaxVersion \in Nat /\ Valid \subseteq 0..MaxVersion

VARIABLES platform, file,
          argv,  \* the words each run was started with
          cmd,   \* what it makes of them
          at,    \* the step each run is about to take
          mem,   \* the source it has read
          shown, \* the file whose line its error message shows
          args,  \* what its linker was told to link
          code   \* its exit code, -1 before it exits

command == <<platform, argv, cmd>>
vars == <<platform, argv, cmd, file, at, mem, shown, args, code>>

-----------------------------------------------------------------------------
(* The command line *)

NoCommand == [in |-> NoPath, out |-> NoPath, b32 |-> FALSE, c |-> FALSE]

\* mutant of WordTaken: -o without a file behind it is passed over
WordTakenLenient(c, w) ==
  CASE w = Option("-32") -> [c EXCEPT !.b32 = TRUE]
    [] w = Option("-c")  -> [c EXCEPT !.c = TRUE]
    [] w = Dash          -> c
    [] OTHER -> [c EXCEPT !.in = w]

\* a word that is not the -o of a pair: the last path is the input
WordTaken(c, w) ==
  CASE w = Option("-32") -> [c EXCEPT !.b32 = TRUE]
    [] w = Option("-c")  -> [c EXCEPT !.c = TRUE]
    [] OTHER -> [c EXCEPT !.in = w]

\* a turn of main's loop over the words, of which there are more or not: the
\* command so far, and whether the word at hand belongs to the -o before it
Turn(s, w, more) ==
  IF s.value THEN [cmd |-> [s.cmd EXCEPT !.out = w], value |-> FALSE]
  ELSE IF w = Dash /\ more THEN [s EXCEPT !.value = TRUE]
  ELSE [s EXCEPT !.cmd = WordTaken(@, w)]

\* the loop after each number of words
After(ws) ==
  LET after[n \in 0..Len(ws)] ==
        IF n = 0 THEN [cmd |-> NoCommand, value |-> FALSE]
        ELSE Turn(after[n - 1], ws[n], n < Len(ws))
  IN  after

Parsed(ws) == After(ws)[Len(ws)].cmd

\* stripExt: without a dot in its last component a name stays as it is
StripExt(p) == p[1]

ObjectOnly(p) == cmd[p].b32 \/ cmd[p].c

\* mutant of Out: no .exe on Windows
OutBare(p) == IF cmd[p].out # NoPath THEN cmd[p].out
              ELSE <<StripExt(cmd[p].in), IF ObjectOnly(p) THEN "o" ELSE "">>

Out(p) == IF cmd[p].out # NoPath THEN cmd[p].out
          ELSE <<StripExt(cmd[p].in), IF ObjectOnly(p) THEN "o"
                                      ELSE IF platform = "unix" THEN "" ELSE "exe">>

ObjPath(p) == IF ObjectOnly(p) THEN Out(p) ELSE <<StripExt(cmd[p].in), "o">>

\* An empty text is an empty module.  The lexer refuses the first bytes of an
\* object or an executable, so the parts of one as well.
Accepted(src) == src.k = "empty" \/ (src.k = "source" /\ src.of[2] \in Valid)

\* what readFile may find in a file: the text is read to its end, and the end
\* of one that another run has truncated may be its beginning
Readings(content) == IF content = Partial THEN {Partial, Empty} ELSE {content}

\* what a finished run has made of the source it read
Product(p) == C(IF cmd[p].b32 THEN "object32" ELSE IF cmd[p].c THEN "object" ELSE "exe",
                mem[p].of, NoPath, NoPath)

-----------------------------------------------------------------------------
(* main() *)

Init ==
  /\ platform \in Platforms
  /\ argv \in [Run -> CommandLines]
  /\ cmd = [p \in Run |-> Parsed(argv[p])]
  /\ file = [f \in Files |->
       IF \E p \in Run : f = cmd[p].in /\ f # NoPath THEN C("source", <<f, 0>>, NoPath, NoPath)
       ELSE IF \E p \in Run : f = Out(p) THEN OldOutput ELSE Absent]
  /\ at = [p \in Run |-> "read"]
  /\ mem = [p \in Run |-> Absent] /\ args = mem /\ shown = mem
  /\ code = [p \in Run |-> -1]

Goto(p, step) == at' = [at EXCEPT ![p] = step] /\ UNCHANGED code

Exit(p, c) == at' = [at EXCEPT ![p] = "exited"] /\ code' = [code EXCEPT ![p] = c]

Put(f, content) == file' = [file EXCEPT ![f] = content]

\* the usage is shown where no word is an input, and readFile gives up on a
\* file that is not there or cannot be opened
Usage(p) == /\ at[p] = "read" /\ Exit(p, 1)
            /\ UNCHANGED <<command, file, mem, shown, args>>

Found(p) == cmd[p].in # NoPath /\ file[cmd[p].in] # Absent

\* mutant of Read: the output is opened before the source is checked
ReadTruncates(p) ==
  /\ at[p] = "read" /\ Found(p)
  /\ mem' = [mem EXCEPT ![p] = file[cmd[p].in]]
  /\ Put(Out(p), Partial)
  /\ Goto(p, IF Accepted(mem'[p]) THEN "open" ELSE "explain")
  /\ UNCHANGED <<command, shown, args>>

\* readFile, the front end and the generator: nothing is written before
Read(p) ==
  /\ at[p] = "read" /\ Found(p)
  /\ \E text \in Readings(file[cmd[p].in]) :
       /\ mem' = [mem EXCEPT ![p] = text]
       /\ Goto(p, IF Accepted(text) THEN "open" ELSE "explain")
  /\ UNCHANGED <<command, file, shown, args>>

\* the catch of a CompileError reads the file again for the line of the error
Explain(p) == /\ at[p] = "explain"
              /\ shown' = [shown EXCEPT ![p] = file[cmd[p].in]]
              /\ Exit(p, 1)
              /\ UNCHANGED <<command, file, mem, args>>

\* emitObj opens the object, which truncates it, or cannot
Open(p) ==
  /\ at[p] = "open"
  /\ \/ Put(ObjPath(p), Partial) /\ Goto(p, "write")
     \/ Exit(p, 1) /\ UNCHANGED file
  /\ UNCHANGED <<command, mem, shown, args>>

\* emitObj writes it; what another run wrote meanwhile may stay behind it,
\* and a failed write leaves it as it is
Write(p) ==
  /\ at[p] = "write"
  /\ LET object == C(IF cmd[p].b32 THEN "object32" ELSE "object", mem[p].of, NoPath, NoPath)
     IN  \/ /\ \/ Put(ObjPath(p), object)
               \/ file[ObjPath(p)] # Partial /\ Put(ObjPath(p), Partial)
            /\ IF ObjectOnly(p) THEN Exit(p, 0)
               ELSE Goto(p, IF platform = "bundled" THEN "rsp" ELSE "link")
         \/ Exit(p, 1) /\ UNCHANGED file
  /\ args' = [args EXCEPT ![p] = Args(ObjPath(p), Out(p))]
  /\ UNCHANGED <<command, mem, shown>>

-----------------------------------------------------------------------------
(* link() with the bundled linker *)

\* the response file is truncated when it is opened, written when it is closed
OpenRsp(p) ==
  /\ at[p] = "rsp"
  /\ \/ Put(Rsp, Partial) /\ Goto(p, "fill")
     \/ Exit(p, 1) /\ UNCHANGED file
  /\ UNCHANGED <<command, mem, shown, args>>

FillRsp(p) == /\ at[p] = "fill"
              /\ Put(Rsp, Args(ObjPath(p), Out(p)))
              /\ Goto(p, "spawn")
              /\ UNCHANGED <<command, mem, shown, args>>

\* mutant of Spawn: waits for its own arguments to be in the file
SpawnWaits(p) == /\ at[p] = "spawn" /\ file[Rsp] = Args(ObjPath(p), Out(p))
                 /\ args' = [args EXCEPT ![p] = file[Rsp]]
                 /\ Goto(p, "link")
                 /\ UNCHANGED <<command, file, mem, shown>>

\* runProcess: ld.exe reads its arguments from the response file
Spawn(p) == /\ at[p] = "spawn"
            /\ args' = [args EXCEPT ![p] = file[Rsp]]
            /\ Goto(p, "link")
            /\ UNCHANGED <<command, file, mem, shown>>

\* mutant of Remove: a failed link leaves the response file
RemoveIfLinked(p) ==
  /\ at[p] \in {"linked", "unlinked"}
  /\ IF at[p] = "linked" THEN Put(Rsp, Absent) /\ Exit(p, 0) ELSE UNCHANGED file /\ Exit(p, 1)
  /\ UNCHANGED <<command, mem, shown, args>>

\* while another run has it open for writing, removing it throws an exception
\* that main does not catch, and the process aborts (code 3 on Windows)
Remove(p) ==
  /\ at[p] \in {"linked", "unlinked"}
  /\ \/ Put(Rsp, Absent) /\ Exit(p, IF at[p] = "linked" THEN 0 ELSE 1)
     \/ (\E q \in Run \ {p} : at[q] = "fill") /\ Exit(p, 3) /\ UNCHANGED file
  /\ UNCHANGED <<command, mem, shown, args>>

\* mutants of Returned: the exit code is not looked at, or passed on
ReturnedIgnored(p, ok) == IF platform = "bundled" THEN Goto(p, "linked") ELSE Exit(p, 0)
ReturnedRaw(p, ok) ==
  IF platform = "bundled" THEN Goto(p, IF ok THEN "linked" ELSE "unlinked")
  ELSE Exit(p, IF ok THEN 0 ELSE 2)

\* the exit code of the linker reaches main at once, or through Remove
Returned(p, ok) ==
  IF platform = "bundled" THEN Goto(p, IF ok THEN "linked" ELSE "unlinked")
  ELSE Exit(p, IF ok THEN 0 ELSE 1)

\* the linker, ld.exe or the one behind cc or g++: it links a complete object
\* for this machine or fails, which may cost an older executable; a name like
\* -o.o it takes for an option
Link(p) ==
  /\ at[p] = "link"
  /\ \/ /\ args[p].k = "response" /\ args[p].obj[1] # "-o" /\ file[args[p].obj].k = "object"
        /\ Put(args[p].exe, C("exe", file[args[p].obj].of, NoPath, NoPath))
        /\ Returned(p, TRUE)
     \/ /\ \/ UNCHANGED file
           \/ args[p].k = "response" /\ Put(args[p].exe, Absent)
        /\ Returned(p, FALSE)
  /\ UNCHANGED <<command, mem, shown, args>>

-----------------------------------------------------------------------------
(* What happens around a run *)

\* somebody saves a new version of a source
Edit == /\ \E f \in Path :
             /\ file[f].k = "source" /\ file[f].of[2] < MaxVersion
             /\ Put(f, [file[f] EXCEPT !.of[2] = @ + 1])
        /\ UNCHANGED <<command, at, mem, shown, args, code>>

\* a run is killed
Kill(p) == /\ at[p] \notin {"exited", "killed"}
           /\ Goto(p, "killed")
           /\ UNCHANGED <<command, file, mem, shown, args>>

Step(p) == \/ Usage(p) \/ Read(p) \/ Explain(p) \/ Open(p) \/ Write(p)
           \/ OpenRsp(p) \/ FillRsp(p) \/ Spawn(p) \/ Link(p) \/ Remove(p)

Over == (\A p \in Run : at[p] \in {"exited", "killed"}) /\ UNCHANGED vars

Next == (\E p \in Run : Step(p) \/ Kill(p)) \/ Edit \/ Over

Spec == Init /\ [][Next]_vars

\* The operating system schedules every process, and the linker returns.
FairSpec == Spec /\ \A p \in Run : WF_vars(Step(p))

TypeOK == /\ platform \in Platforms
          /\ argv \in [Run -> CommandLines] /\ cmd \in [Run -> Command]
          /\ file \in [Files -> Content]
          /\ at \in [Run -> {"read", "explain", "open", "write", "rsp", "fill", "spawn", "link",
                             "linked", "unlinked", "exited", "killed"}]
          /\ mem \in [Run -> Content] /\ args \in [Run -> Content]
          /\ shown \in [Run -> Content]
          /\ code \in [Run -> {-1, 0, 1, 3}]

-----------------------------------------------------------------------------
(* Properties *)

Links(p) == ~ObjectOnly(p)

\* no other run reads or writes a file of this one, by its command line
Apart(p) == \A q \in Run \ {p} :
              {cmd[p].in, ObjPath(p), Out(p)} \cap {cmd[q].in, ObjPath(q), Out(q)} = {}

\* the only run that uses the response file
LinksAlone(p) == platform = "bundled" => \A q \in Run \ {p} : ~Links(q)

\* the source is not one of the run's own outputs
Distinct(p) == cmd[p].in \notin {ObjPath(p), Out(p)} /\ (Links(p) => ObjPath(p) # Out(p))

\* A run that exits with 0 has left at its output what it made of the source
\* it read, however edits, failures, kills and other runs came between, if
\* the others keep to files of their own and none of them needs shine-link.rsp.
SuccessIsTrue ==
  \A p \in Run : code[p] = 0 /\ Apart(p) /\ LinksAlone(p) /\ Distinct(p) =>
    file[Out(p)] = Product(p)

\* A source that does not compile costs nothing: the output of the build
\* before it is still there after the run, and the message shows a line of
\* that source, of the version that was read or of one saved since.
RejectionKeepsOutput ==
  \A p \in Run :
    code[p] = 1 /\ mem[p] # Absent /\ ~Accepted(mem[p]) /\ Apart(p) /\ cmd[p].in # Out(p) =>
      /\ file[Out(p)] = OldOutput
      /\ shown[p].k = "source" /\ shown[p].of[1] = cmd[p].in /\ shown[p].of[2] >= mem[p].of[2]

\* the words of a command line that stand behind an -o, which is not one of
\* them itself
Values(ws) == CHOOSE vs \in SUBSET DOMAIN ws :
                \A i \in DOMAIN ws : i \in vs <=> i > 1 /\ ws[i - 1] = Dash /\ i - 1 \notin vs

\* A command line (main.cpp, main) means the same in whatever order: the input
\* is the last path that is not the value of an -o, the output the value of
\* the last -o, and a flag counts where it is not such a value.  An -o is a
\* path itself only where the line ends with it.  A run that has no input
\* reads no file, and can only exit with 1.
CommandLineIsRead ==
  \A p \in Run :
    LET ws     == argv[p]
        free   == DOMAIN ws \ Values(ws)
        inputs == {i \in free : ws[i] \in Path /\ (ws[i] = Dash => i = Len(ws))}
        last(is) == IF is = {} THEN NoPath ELSE ws[CHOOSE i \in is : \A j \in is : j <= i]
    IN  /\ cmd[p].in = last(inputs)
        /\ cmd[p].out = last(Values(ws))
        /\ cmd[p].b32 = (\E i \in free : ws[i] = Option("-32"))
        /\ cmd[p].c = (\E i \in free : ws[i] = Option("-c"))
        /\ inputs = {} => mem[p] = Absent /\ code[p] \in {-1, 1}

\* A source is overwritten by a build only if -o names it, or the name the
\* build derives for an output is the source's own: the source ends in .o
\* already, or as an executable does, in .exe or nothing.
SourcesKept ==
  \A p \in Run : cmd[p].in # NoPath =>
    \/ file[cmd[p].in].k = "source"
    \/ \E q \in Run : \/ cmd[q].out = cmd[p].in
                      \/ cmd[p].in[2] = "o" /\ cmd[q].in[1] = cmd[p].in[1]
                      \/ /\ cmd[p].in[2] = (IF platform = "unix" THEN "" ELSE "exe")
                         /\ cmd[q].in[1] = cmd[p].in[1] /\ Links(q)

\* Once every run has exited by itself no response file is left behind, in
\* whatever order they wrote and removed the one they share.
ResponseRemoved ==
  (\A p \in Run : at[p] = "exited") => file[Rsp] = Absent

\* Every run exits or is killed.
RunsEnd == \A p \in Run : <>(at[p] \in {"exited", "killed"})

\* README.md: after the command "your Shine code has been compiled and is
\* ready to run!"; said of runs on files of their own.
ReadyToRun ==
  \A p \in Run : code[p] = 0 /\ Apart(p) /\ Distinct(p) => file[Out(p)] = Product(p)
=============================================================================
