----------------------------- MODULE MCSyscalls -----------------------------
(***************************************************************************)
(* A small file tree for Syscalls: cwd/sub and cwd/subx, a file in each    *)
(* directory, a file outside, and links in and out of the root.            *)
(***************************************************************************)
EXTENDS Syscalls, TLC

cwd == <<<<"cwd">>>>
sub == cwd \o <<<<"sub">>>>
subx == cwd \o <<<<"sub", "x">>>>
inner == sub \o <<<<"y">>>>
outer == <<<<"etc">>>>

MCExists == {cwd, sub, subx, inner, outer, Exe}
MCLinks == (cwd \o <<<<"in">>>>) :> inner @@ (sub \o <<<<"x">>>>) :> outer

\* Absolute: a file, "..", a link in and a link out, the executable, nothing.
\* Relative: a file next to a directory of the same prefix.
MCPaths ==
  {<<"/", "sub", "/", "y">>, <<"/", "sub", "/", "..", "/", "sub">>,
   <<"/", "..", "/", "etc">>, <<"/", "in">>, <<"/", "sub", "/", "x">>,
   <<"/", "exe">>, <<"/", "none">>, <<"x">>, <<"y">>}
=============================================================================
