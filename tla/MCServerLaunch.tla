---------------------------- MODULE MCServerLaunch ----------------------------
(***************************************************************************)
(* Two processes and three launches on one machine, on a host whose paths  *)
(* are plain, on one that lacks the home directory they need, on one that  *)
(* lacks boo, and on one with another version of it; a server of this      *)
(* version, of another one, or of one before versions.                     *)
(***************************************************************************)
EXTENDS ServerLaunch, TLC

MCHosts == [remote : {FALSE}, paths : {"plain"}, fault : {"none"}, version : {"same"}]
           \cup [remote : {TRUE}, paths : {"plain", "home"}, fault : {"home"}, version : {"same"}]
           \cup [remote : {TRUE}, paths : {"home"}, fault : {"tools"}, version : {"same"}]
           \cup [remote : {TRUE}, paths : {"home"}, fault : {"none"}, version : {"other"}]

MCOldServers == [version : {"same", "other", "old"}, reads : {TRUE}]
                \cup [version : {"old"}, reads : {FALSE}]

\* Nothing is claimed of what follows a surprise and a break.
MCClaimed == Foreseen \/ Unbroken

\* Two launches overlap, and one more follows them.
MCThirdIsAlone == launches = 3 => Cardinality({c \in Launchers : Busy(c)}) < 2

MCConstraint == MCClaimed /\ MCThirdIsAlone

\* The processes are alike.
MCSymmetry == Permutations(Launchers)
=============================================================================
