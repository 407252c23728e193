----------------------------- MODULE MCPrograms -----------------------------
EXTENDS Programs

CONSTANTS a, b, bin, usr, opt

UpTo(bytes, n) == UNION {[1..m -> bytes] : m \in 0..n}
Files(bytes, n) == UpTo(bytes, n) \ {<<>>}

Code(c, f) == [coder |-> c, files |-> f, maps |-> <<>>]
Show(f, shows) == [coder |-> "mmap", files |-> f, maps |-> shows]

\* The mapping of a file whose name is no number, with a zero byte behind it.
Usual == [atoi |-> 0, behind |-> NUL]
AllUsual(f) == [n \in DOMAIN f |-> Usual]

MCInputs ==
  {Code("wzip", f) : f \in UpTo(UpTo({a, b, FF}, 2), 2) \ {<<>>}}
    \cup {Show(f, AllUsual(f)) : f \in UpTo(UpTo({a, b, NUL}, 2), 2) \ {<<>>}}
    \cup {Show(f, AllUsual(f)) : f \in UpTo(Files({a, b}, 2), 4) \ {<<>>}}
    \cup UNION {{Show(f, [AllUsual(f) EXCEPT ![n].behind = byte]) :
                   n \in DOMAIN f, byte \in {NoPage, a}} :
                 f \in UpTo(Files({a, b}, 2), 3) \ {<<>>}}
    \cup UNION {{Show(f, [AllUsual(f) EXCEPT ![n].atoi = number]) :
                   n \in DOMAIN f, number \in {-1, 1, 2}} :
                 f \in UpTo(Files({a, b}, 3), 2) \ {<<>>}}
    \cup {Code("static", f) : f \in UpTo(UpTo({a, b}, 4), 2) \ {<<>>}}
    \cup {Code("static", <<f>>) : f \in [1..11 -> {a, b}]}

Run(name) == [name |-> name, args |-> <<>>]
Path(dirs) == [name |-> "path", args |-> dirs]

MCInstalled == {<<bin, "ls">>, <<opt, "wzip">>}
MCLines ==
  {<<Run("ls")>>, <<Run("exit")>>,
   <<[name |-> "exit", args |-> <<usr>>]>>,
   <<Path(<<>>)>>, <<Path(<<bin, usr, opt>>)>>, <<Path(<<usr>>)>>,
   <<Run("ls"), Path(<<opt, bin>>)>>, <<Path(<<usr>>), Run("wzip")>>,
   <<Run("ls"), Run("wzip"), Run("ls"), Run("ls")>>, <<Run("ls"), Run("exit"), Run("exit")>>,
   <<Run("wzip"), Run("ls"), Run("cd")>>}
=============================================================================
