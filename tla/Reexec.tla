------------------------------- MODULE Reexec -------------------------------
(***************************************************************************)
(* How a program comes to run and runs itself again: the loader            *)
(* (src/compat/loader.c), the wrappers of execve and readlink that know    *)
(* /proc/self/exe (exec.c, readlink.c) and the list of preloads            *)
(* (preload_policy.c), with the kernel and musl's linker around them.  The *)
(* kernel starts the loader, the loader the linker with the program as an  *)
(* argument; from then on /proc/self/exe is the linker, and the wrappers   *)
(* answer with the program, found in the command line and kept in          *)
(* exe_path, which threads share without a lock.                           *)
(*                                                                         *)
(* Abstractions: a character is a string, a path or an argument a sequence *)
(* of them; one access of a thread to exe_path is one step; no argument    *)
(* vector is empty; the buffer of the caller of readlink is large enough;  *)
(* dlsym finds the native functions; the environment of a new program is   *)
(* the one of the process.                                                 *)
(***************************************************************************)
EXTENDS Integers, SequencesExt

CONSTANTS
    Threads,
    Argvs,           \* the argument vectors that are passed on
    Envs,            \* the environments: [core, nvidia, user], <<>> if unset
    Core,            \* MUSL_BSD_PRELOAD_PATH, as configured
    LinkerPath,      \* MUSL_BSD_MUSL_LINKER_PATH
    LinkerReal,      \* the file it leads to
    LoaderPath,      \* a path of the loader itself
    Programs,        \* the programs, by their paths: one that does not start with
                     \* a slash leads to it from the first directory only
    PathMax, CmdSize \* the sizes of exe_path and of the buffer for the command line

Nul == "nul"

ASSUME ReexecAssumption ==
    /\ {LinkerPath, LinkerReal, LoaderPath} \cap DOMAIN Programs = {}
    /\ "none" \notin Range(Programs)
    /\ \A argv \in Argvs : argv \in Seq(Seq(STRING)) /\ argv # <<>> /\ argv[1] # <<"--">>
    /\ \A path \in DOMAIN Programs \cup {LinkerPath, LinkerReal, LoaderPath} :
          /\ path \in Seq(STRING) /\ path # <<>> /\ Len(path) < PathMax
          /\ \A i \in DOMAIN path : path[i] # Nul
    /\ \A e \in Envs : e \in [core : Seq(STRING), nvidia : Seq(STRING), user : Seq(STRING)]
    /\ Core \in Seq(STRING) /\ Core # <<>>
    /\ PathMax \in Nat /\ CmdSize \in Nat /\ PathMax <= CmdSize

(* The wrapper of readlink looks for the "--" that the loader puts before  *)
(* the program: no word before it is that one.                             *)
ASSUME DashesAssumption ==
    <<"--">> \notin {LinkerPath, Core} \cup {e.core : e \in Envs}

VARIABLES
    img,           \* what the process executes
    env, cwd,      \* its environment; whether it is in the first directory
    exe_path,      \* static char exe_path[PATH_MAX]
    linker_path,   \* the static linker_path is set
    call,          \* per thread: the call it is in
    raced          \* a thread used exe_path while another was filling it

vars == <<img, env, cwd, exe_path, linker_path, call, raced>>

----------------------------------------------------------------------------
(* The list of preloads and the argument vector for the linker.            *)

Failure == <<>>

Path(value, configured) == IF value # <<>> THEN value ELSE configured

\* One entry more in a list that is not empty: the core preload always is there.
With(list, w) == IF w = <<>> THEN list ELSE list \o <<":">> \o w

Joined(e) == With(With(Path(e.core, Core), e.nvidia), e.user)

PreloadList(e) ==
    IF e.nvidia # <<>> /\ (Head(e.nvidia) # "/" \/ Contains(e.nvidia, ":")) THEN Failure
    ELSE Joined(e)

\* Mutant: argv[0] is passed on with the other arguments.
NewArgvWhole(preloads, target, argv) ==
    <<LinkerPath, <<"--preload">>, preloads, <<"--library-path">>, <<"libs">>,
      <<"--argv0">>, Head(argv), <<"--">>, target>> \o argv

NewArgv(preloads, target, argv) ==
    <<LinkerPath, <<"--preload">>, preloads, <<"--library-path">>, <<"libs">>,
      <<"--argv0">>, Head(argv), <<"--">>, target>> \o Tail(argv)

----------------------------------------------------------------------------
(* The kernel and the linker.                                              *)

\* What a path leads to, from where the process is.
Program(path) ==
    IF path \in DOMAIN Programs /\ (Head(path) = "/" \/ cwd = "first") THEN Programs[path] ELSE "none"

Image(stage, execfn, program, exe, cmdline, argv, preloads) ==
    [stage |-> stage, execfn |-> execfn, program |-> program, exe |-> exe, cmdline |-> cmdline,
     argv |-> argv, preloads |-> preloads]

Dead == Image("dead", <<>>, "none", <<>>, <<>>, <<>>, <<>>)

\* The kernel executes a program whose interpreter is the loader.
Started(path, argv) == Image("loader", path, "none", <<>>, <<>>, argv, <<>>)

\* The linker run as a command, with what the loader and execve give it: what it runs, as
\* which arguments; it ends when there is no such program.
Linked(cmdline) ==
    LET program == Program(cmdline[9])
    IN  IF program = "none" THEN Dead
        ELSE Image("running", cmdline[9], program, LinkerReal, cmdline,
                   <<cmdline[7]>> \o SubSeq(cmdline, 10, Len(cmdline)), cmdline[3])

\* A program of musl's that has the wrappers by LD_PRELOAD.
Native(path, argv) == Image("running", path, Program(path), path, argv, argv, <<>>)

----------------------------------------------------------------------------
Empty == [i \in 0 .. PathMax - 1 |-> Nul]
Idle  == [pc |-> "idle", argv |-> <<>>, count |-> 0, got |-> <<>>]

\* A new image: the statics are as the program has them, and one thread runs.
Becomes(image) ==
    /\ img' = image
    /\ exe_path' = Empty /\ linker_path' = FALSE
    /\ call' = [t \in Threads |-> Idle] /\ raced' = FALSE
    /\ UNCHANGED <<env, cwd>>

Init ==
    /\ env \in Envs /\ cwd = "first"
    /\ \E argv \in Argvs, path \in DOMAIN Programs \cup {LoaderPath} :
          \/ img = Started(path, argv)
          \/ path # LoaderPath /\ Head(path) = "/" /\ img = Native(path, argv)
    /\ exe_path = Empty /\ linker_path = FALSE
    /\ call = [t \in Threads |-> Idle] /\ raced = FALSE

\* main of the loader: it may be refused for its credentials, or run out of memory.
Load ==
    /\ img.stage = "loader"
    /\ \/ Becomes(Dead)
       \/ /\ img.execfn # LoaderPath /\ PreloadList(env) # Failure
          /\ Becomes(Linked(NewArgv(PreloadList(env), img.execfn, img.argv)))

----------------------------------------------------------------------------
(* Strings in exe_path.                                                    *)

Text(a) == LET n == CHOOSE i \in DOMAIN a : a[i] = Nul /\ \A j \in 0 .. i - 1 : a[j] # Nul
           IN  [i \in 1 .. n |-> a[i - 1]]

Put(a, at, bytes) ==
    [i \in DOMAIN a |-> IF i - at + 1 \in DOMAIN bytes THEN bytes[i - at + 1] ELSE a[i]]

\* Where each word starts in /proc/self/cmdline, and where the last one ends.
Starts(line) ==
    LET start[i \in 1 .. Len(line) + 1] ==
            IF i = 1 THEN 0 ELSE start[i - 1] + Len(line[i - 1]) + 1
    IN  start

\* What target_from_cmdline finds in the part of the command line that it reads: the word
\* after "--", cut where the buffer ends.
TargetFromCmdline ==
    LET line   == img.cmdline
        start  == Starts(line)
        read   == {i \in DOMAIN line : start[i] < CmdSize}
        dashes == {i \in read : line[i] = <<"--">> /\ start[i + 1] <= CmdSize}
        value  == Min(dashes) + 1
    IN  IF dashes = {} \/ value \notin read THEN Failure
        ELSE SubSeq(line[value], 1, Min({Len(line[value]), CmdSize - start[value]}))

----------------------------------------------------------------------------
(* readlink("/proc/self/exe"), called by a program or by execve, which     *)
(* comes with the argument vector of the new image.                        *)

Running(t, pc) == img.stage = "running" /\ call[t].pc = pc

Filling(t) == call[t].pc \in {"realpath", "link", "end", "compare", "target", "fail"}

\* A step of thread t inside of readlink, to another pc.
Step(t, c) ==
    /\ call' = [call EXCEPT ![t] = c]
    /\ raced' = (raced \/ \E u \in Threads \ {t} : Filling(u))
    /\ UNCHANGED <<img, env, cwd>>

To(t, pc) == Step(t, [call[t] EXCEPT !.pc = pc])

Readlink(t, argv) ==
    /\ Running(t, "idle")
    /\ Step(t, [Idle EXCEPT !.argv = argv, !.pc = IF exe_path[0] = Nul THEN "realpath" ELSE "copy"])
    /\ UNCHANGED <<exe_path, linker_path>>

\* realpath fails when memory runs out: readlink returns -1.
Realpath(t) ==
    /\ Running(t, "realpath")
    /\ \/ To(t, "link") /\ linker_path' = TRUE
       \/ ~linker_path /\ Step(t, Idle) /\ UNCHANGED linker_path
    /\ UNCHANGED exe_path

Link(t) ==
    /\ Running(t, "link")
    /\ \/ /\ Step(t, [call[t] EXCEPT !.pc = "end", !.count = Len(img.exe)])
          /\ exe_path' = Put(exe_path, 0, img.exe)
       \/ To(t, "fail") /\ UNCHANGED exe_path
    /\ UNCHANGED linker_path

EndLink(t) ==
    /\ Running(t, "end")
    /\ To(t, "compare")
    /\ exe_path' = [exe_path EXCEPT ![call[t].count] = Nul]
    /\ UNCHANGED linker_path

Compare(t) ==
    /\ Running(t, "compare")
    /\ To(t, IF Text(exe_path) = LinkerReal THEN "target" ELSE "copy")
    /\ UNCHANGED <<exe_path, linker_path>>

\* The command line may not be there to read.
FindTarget(t) ==
    /\ Running(t, "target")
    /\ \/ /\ TargetFromCmdline # Failure
          /\ To(t, "copy")
          /\ exe_path' = Put(exe_path, 0, Append(TargetFromCmdline, Nul))
       \/ To(t, "fail") /\ UNCHANGED exe_path
    /\ UNCHANGED linker_path

\* Mutant: what was read stays in the cache.
FailKeeping(t) ==
    /\ Running(t, "fail")
    /\ Step(t, Idle)
    /\ UNCHANGED <<exe_path, linker_path>>

Fail(t) ==
    /\ Running(t, "fail")
    /\ Step(t, Idle)
    /\ exe_path' = [exe_path EXCEPT ![0] = Nul]
    /\ UNCHANGED linker_path

\* The answer: readlink returns, or execve goes on.
Copy(t) ==
    /\ Running(t, "copy")
    /\ Step(t, IF call[t].argv = <<>> THEN Idle
               ELSE [call[t] EXCEPT !.pc = "exec", !.got = Text(exe_path)])
    /\ UNCHANGED <<exe_path, linker_path>>

----------------------------------------------------------------------------
(* execve, of /proc/self/exe and of a path; execv and execvp come to the   *)
(* same.                                                                   *)

\* There is no memory, or the list of preloads is refused, or the kernel fails.
ExecFails(t) ==
    /\ Running(t, "exec")
    /\ call' = [call EXCEPT ![t] = Idle]
    /\ UNCHANGED <<img, env, cwd, exe_path, linker_path, raced>>

ExecSelf(t) ==
    /\ Running(t, "exec") /\ PreloadList(env) # Failure
    /\ Becomes(Linked(NewArgv(PreloadList(env), call[t].got, call[t].argv)))

Exec(t, path, argv) ==
    /\ Running(t, "idle") /\ Program(path) # "none"
    /\ Becomes(Started(path, argv))

----------------------------------------------------------------------------
(* The program.                                                            *)

Setenv(e) ==
    /\ img.stage = "running" /\ env' = e
    /\ UNCHANGED <<img, cwd, exe_path, linker_path, call, raced>>

Chdir ==
    /\ img.stage = "running" /\ cwd' = "away"
    /\ UNCHANGED <<img, env, exe_path, linker_path, call, raced>>

ThreadNext(t) ==
    \/ \E argv \in Argvs \cup {<<>>} : Readlink(t, argv)
    \/ Realpath(t) \/ Link(t) \/ EndLink(t) \/ Compare(t) \/ FindTarget(t) \/ Fail(t) \/ Copy(t)
    \/ ExecFails(t) \/ ExecSelf(t)
    \/ \E path \in DOMAIN Programs, argv \in Argvs : Exec(t, path, argv)

Next ==
    \/ Load \/ Chdir
    \/ \E e \in Envs : Setenv(e)
    \/ \E t \in Threads : ThreadNext(t)

Spec == Init /\ [][Next]_vars

----------------------------------------------------------------------------
(* Properties.                                                             *)

\* The path the program was started by still leads to it.
Reachable == Program(img.execfn) = img.program

\* execve("/proc/self/exe") runs the program that calls it, with the arguments it gives
\* and the preloads that any program started now would have: the round trip through the
\* linker's command line and the cache of readlink changes nothing, any number of times,
\* unless a thread has used the cache while another was filling it.
Again(t) ==
    ExecSelf(t) /\ Reachable =>
        /\ img'.stage = "running" /\ img'.program = img.program
        /\ img'.argv = call[t].argv /\ img'.preloads = Joined(env)

RunsItself == [][\A t \in Threads : raced \/ Again(t)]_vars

TypeOK ==
    /\ img.stage \in {"loader", "running", "dead"}
    /\ DOMAIN exe_path = 0 .. PathMax - 1 /\ exe_path[PathMax - 1] = Nul
    /\ \A t \in Threads : call[t].pc = "end" => call[t].count < PathMax
    /\ img.stage # "running" => exe_path = Empty /\ call = [t \in Threads |-> Idle]

\* The state is well typed, and between the calls exe_path is empty or the path of the
\* program, also after calls that have failed half-way.
CacheTrue ==
    /\ TypeOK
    /\ img.stage = "running" /\ ~raced /\ (\A t \in Threads : ~Filling(t)) =>
           Text(exe_path) \in {<<>>, img.execfn}

\* The same, whatever the threads do at once.
RunsItselfThreaded == [][\A t \in Threads : Again(t)]_vars
=============================================================================
