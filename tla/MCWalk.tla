-------------------------------- MODULE MCWalk --------------------------------
(* Trees with a file beside a directory of that file's name and a link to the *)
(* directory; with a directory of the name of that link, a special file and a *)
(* name that has a backslash; with names that differ in bytes that are not    *)
(* UTF-8.  The current directory is "/a".  Times are at the ends of the       *)
(* format and about every seven months.                                       *)
EXTENDS Walk

A == <<97>>
B == <<98>>
S == <<115>>
AB == <<97, Backslash, 98>>

File == [kind |-> "file"]
Dir == [kind |-> "dir"]
Link(path) == [kind |-> "link", to |-> path]

MCUtf8Trees ==
  {<<A>> :> Dir @@ <<A, A>> :> Dir @@ <<A, A, B>> :> File @@ <<A, B>> :> File
     @@ <<B>> :> File @@ <<S>> :> Link(<<A>>),
   <<A>> :> Dir @@ <<A, B>> :> File @@ <<A, S>> :> [kind |-> "other"] @@ <<AB>> :> File
     @@ <<S>> :> Dir @@ <<S, B>> :> File}
MCTrees ==
  MCUtf8Trees \cup {<<A>> :> Dir @@ <<A, <<254>> >> :> File @@ <<A, <<255>> >> :> File}

Day(d, s) == [day |-> d, sec |-> s]
Noon == 43201
MCTimes ==
  {Day(-1, 86399), Day(0, 0), Day(3651, 86399), Day(3652, 0), Day(3652, 1),
   Day(47540, Noon), Day(47541, Noon), Day(50402, 86399), Day(50403, 0)}
    \cup {Day(3652 + 217 * n, Noon) : n \in 0..215}

Absolute(path) == [text |-> <<Slash>> \o PathText(path), path |-> path]
MCGiven ==
  {[text |-> <<Slash>>, path |-> <<>>], Absolute(<<A>>), Absolute(<<B>>), Absolute(<<S>>),
   [text |-> <<Slash, 97, Slash>>, path |-> <<A>>], [text |-> <<Dot, Dot>>, path |-> <<>>],
   [text |-> <<Dot>>, path |-> <<A>>], [text |-> A, path |-> <<A, A>>]}
MCGlobs == {{}, {B, <<Star, 97, Slash, Question>>}}
AskOf(given) == [given : given, exclude : MCGlobs, basenameOnly : BOOLEAN]
MCCases ==
  [n \in 1..MaxRoots |->
     [host : [tree : MCTrees, time : {Day(20000, 0)}], ask : AskOf([1..n -> MCGiven])]
       \cup [host : [tree : {<<B>> :> File}, time : MCTimes],
             ask : {[given |-> [i \in 1..n |-> Absolute(<<B>>)], exclude |-> {},
                     basenameOnly |-> FALSE]}]]
===============================================================================
