------------------------------ MODULE MCOpen64 ------------------------------
(* A small file system: the directories /, /d, a file /d/f that exists and *)
(* a name /d/g that does not until it is created; descriptors 1 and 2 are  *)
(* inherited, 0 may or may not be open.                                    *)
EXTENDS Open64, TLC

Abs(c) == [root |-> TRUE, comps |-> c]
Rel(c) == [root |-> FALSE, comps |-> c]

DF == Abs(<<"d", "f">>)
DG == Abs(<<"d", "g">>)
D == Abs(<<"d">>)
LogName == Abs(<<"log">>)

MCComponent == {"", ".", "d", "f", "g", "log", "tty", "nodir"}
MCDirs == {<<>>, <<"d">>}
MCObject == {<<>>, <<"d">>, <<"d", "f">>, <<"d", "g">>, <<"log">>, <<"tty">>, <<"f">>, <<"g">>,
             <<"nodir", "log">>}
MCExisting == {<<"d", "f">>, <<"tty">>}
MCCwd == D

RdOnly == {}
Create == {"O_CREAT", "O_WRONLY"}
Directory == {"O_DIRECTORY"}

On(o) == [obj |-> o, wr |-> TRUE]

(* A table with descriptors 1 and 2 open, and those of more.               *)
Inherit(more) ==
  [f \in Fd |-> IF f \in DOMAIN more THEN more[f]
                ELSE IF f \in {1, 2} THEN On(<<"tty">>) ELSE NULL]

NoVars ==
  [PREOPEN_FILES |-> UNSET, PREOPEN_FILE_FDS |-> UNSET,
   PREOPEN_PATHS |-> UNSET, PREOPEN_PATH_FDS |-> UNSET,
   PREOPEN_DEBUG_FD |-> UNSET, PREOPEN_DEBUG_FILE |-> UNSET,
   table |-> Inherit(<<>>)]

WithLog(name) == [NoVars EXCEPT !.PREOPEN_DEBUG_FILE = name]
WithPaths(paths, fds) == [NoVars EXCEPT !.PREOPEN_PATHS = paths, !.PREOPEN_PATH_FDS = fds]
WithFiles(names, fds) == [NoVars EXCEPT !.PREOPEN_FILES = names, !.PREOPEN_FILE_FDS = fds]

Stdin == 0 :> On(<<"tty">>)

(* No PREOPEN variable: no log, a log, a log that cannot be opened.        *)
PlainEnvs ==
  {NoVars, WithLog(LogName), WithLog(Abs(<<"nodir", "log">>)),
   [WithLog(LogName) EXCEPT !.table = Inherit(Stdin)],
   [NoVars EXCEPT !.PREOPEN_DEBUG_FD = 0]}
PlainArgs == {DF, Rel(<<"g">>)}
PlainFlags == {RdOnly, Create}

(* Lists of files and directories: in order, with an entry that is listed  *)
(* twice, with an unusable, a wrapped and a missing number, with more      *)
(* numbers than names, only one variable of a pair.                        *)
PreopenEnvs ==
  LET four == 4 :> On(<<"d", "f">>)
      withFiles(names, fds) == [WithFiles(names, fds) EXCEPT !.table = Inherit(four)]
  IN  {withFiles(<<DF>>, <<4>>), withFiles(<<DG, DF>>, <<NotANumber, 4>>),
       withFiles(<<DF, DF>>, <<4, 2>>), withFiles(<<DF>>, <<20>>),
       withFiles(<<DF>>, <<11>>), withFiles(<<DG>>, <<4, 4, 4>>),
       withFiles(<<DG, DF>>, <<4>>), withFiles(<<DF>>, UNSET), withFiles(<<DF>>, <<0>>),
       WithPaths(<<D>>, <<1>>), WithPaths(<<Abs(<<"">>), D>>, <<1, 2>>),
       [WithPaths(<<D>>, <<1>>) EXCEPT !.table = Inherit(Stdin)],
       [withFiles(<<DG>>, <<4>>) EXCEPT !.PREOPEN_PATHS = <<D>>, !.PREOPEN_PATH_FDS = <<1>>,
                                        !.PREOPEN_DEBUG_FILE = LogName],
       [withFiles(<<DF>>, <<4>>) EXCEPT !.PREOPEN_DEBUG_FD = 2]}
PreopenArgs == {DF, DG, Rel(<<"g">>), Rel(<<".", "f">>), D, Abs(<<"f">>)}
PreopenFlags == {RdOnly, Create, Directory}

(* Two threads that share lists of files and directories.                  *)
SharedEnvs ==
  {[WithFiles(<<DF>>, <<4>>) EXCEPT !.PREOPEN_PATHS = <<D>>, !.PREOPEN_PATH_FDS = <<2>>,
                                    !.PREOPEN_DEBUG_FILE = LogName,
                                    !.table = Inherit(Stdin @@ (4 :> On(<<"d", "f">>)))],
   WithPaths(<<D>>, <<1>>)}
SharedArgs == {DF, DG}
SharedFlags == {RdOnly}

(* Threads are interchangeable.                                            *)
ThreadSymmetry == Permutations(Threads)

(* One environment each for the runs that show a disagreement.             *)
DirEnvs == {WithPaths(<<D>>, <<1>>)}
NoEnvs == {NoVars}
DebugFdEnvs == {[NoVars EXCEPT !.PREOPEN_DEBUG_FD = 3,
                               !.table = Inherit(Stdin @@ (3 :> On(<<"log">>)))]}
=============================================================================
