------------------------------ MODULE MCLoader ------------------------------
(* A small world for Loader: two listed directories, one that an RPATH     *)
(* names, one of the system.                                               *)
EXTENDS Loader

MCFile == {"prog", "rprog", "lost.txt", "a32", "a2", "ar", "as", "b1", "cs", "es"}
MCDir == {"d1", "d2", "dr", "ds"}
MCLibName == {"a", "b", "c", "e"}
MCPathName == {"/prog", "/rprog", "/a", "/txt"}

MCKind == [f \in MCFile |->
             CASE f \in {"prog", "rprog"} -> "program" [] f = "lost.txt" -> "data"
               [] f = "a32" -> "foreign" [] OTHER -> "library"]

Holding(a, b, c, e) ==
  [n \in MCLibName |-> CASE n = "a" -> a [] n = "b" -> b [] n = "c" -> c [] OTHER -> e]

MCHas == [d \in MCDir |->
            CASE d = "d1" -> Holding("a32", "b1", NULL, NULL)
              [] d = "d2" -> Holding("a2", NULL, NULL, "lost.txt")
              [] d = "dr" -> Holding("ar", NULL, NULL, NULL)
              [] d = "ds" -> Holding("as", "b1", "cs", "es")]

MCAt == [p \in MCPathName |->
           CASE p = "/prog" -> "prog" [] p = "/rprog" -> "rprog" [] p = "/a" -> "a2"
             [] OTHER -> "lost.txt"]

MCSoname == [f \in MCFile |-> CASE f \in {"a2", "ar", "as"} -> "a" [] f = "b1" -> "b" [] OTHER -> NULL]
MCNeeded == [f \in MCFile |->
               CASE f \in {"prog", "rprog"} -> <<"b">> [] f = "b1" -> <<"a">>
                 [] f = "cs" -> <<"e", "a">> [] OTHER -> <<>>]
MCRpath == [f \in MCFile |-> IF f = "rprog" THEN <<"dr">> ELSE <<>>]
MCRunpath == [f \in MCFile |-> IF f = "cs" THEN <<"dr">> ELSE <<>>]
MCLdLibraryPath == <<>>
MCSystemDirs == <<"ds">>

(* Descriptors 0 to 4: 1 and 2 are the directories, 3 is a program.        *)
Inherited(in, d, e, p) ==
  [f \in 0..4 |->
     LET o == CASE f = 0 -> in [] f = 1 -> d [] f = 2 -> e [] f = 3 -> p [] OTHER -> NULL
     IN  IF o = NULL THEN NULL ELSE [obj |-> o, by |-> "inherited"]]

Kernel(prog, fds, in, more) ==
  [direct |-> FALSE, env_fds |-> fds, opt_fds |-> UNSET, exec_fd |-> UNSET, prog |-> prog,
   preload |-> <<>>, table |-> Inherited(in, "d1", "d2", NULL), beyond |-> more,
   garbage |-> FALSE]

Direct(fds, opt, exec, garb) ==
  [direct |-> TRUE, env_fds |-> fds, opt_fds |-> opt, exec_fd |-> exec, prog |-> "/rprog",
   preload |-> <<"/a", "a">>, table |-> Inherited("lost.txt", "d1", "d2", "prog"),
   beyond |-> <<-1>>, garbage |-> garb]

(* With IntHalf = 8 the number 17 becomes descriptor 1, and -1 and 0 are   *)
(* left out.                                                               *)
MCConfigs ==
  {Kernel("/prog", <<0, 1, 2>>, "lost.txt", <<-1>>),
   Kernel("/prog", <<-1, 2, 17>>, "lost.txt", <<7, -1>>),
   Kernel("/rprog", <<1, 2>>, "lost.txt", <<>>), Kernel("/prog", <<2>>, NULL, <<-1>>)}
  \cup {Direct(<<2>>, opt, exec, FALSE) : opt \in {UNSET, <<1>>}, exec \in {UNSET, 3}}
  \cup {Direct(UNSET, <<2>>, 3, garb) : garb \in BOOLEAN}

MCAppFiles == {"a2", "lost.txt"}
MCAppNames == {"c", "/a"}
=============================================================================
