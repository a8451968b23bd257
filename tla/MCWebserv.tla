------------------------------ MODULE MCWebserv -----------------------------
(***************************************************************************)
(* Values for the constants of Webserv.  Each configuration opens one part *)
(* of the environment wide and keeps the others narrow.                    *)
(***************************************************************************)
EXTENDS Webserv

Nothing == {}

OneSlot  == {1}
TwoSlots == {1, 2}

AllThrows == ThrowKinds

AllRoutes   == {"unsupported", "badPathInfo", "badExtension", "yes"}
CgiRoute    == {"yes"}
AllRefusals == RefusalKinds
HeaderOnly  == {"header"}
AllEndings  == {"exit0", "exitN", "signaled"}

PeerFails  == {"eof", "net"}
ForkFails  == {"fork"}
Memory     == {"alloc"}
Accepting  == {"accept", "sockname", "eof"}
WithSigint == {"SIGINT"}
=============================================================================
