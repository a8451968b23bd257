----------------------------- MODULE Connection -----------------------------
(***************************************************************************)
(* What the server promises about the connections it accepts, without      *)
(* loops, events, descriptors or timeouts.  A connection is accepted while *)
(* the server is open, starts one script at most, gets one answer at most  *)
(* and leaves.  The answer is a script's only if that script succeeded,    *)
(* and never given while the script runs; no script is left behind.  The   *)
(* server ends when it was asked to and nobody is connected, and takes up  *)
(* no work once it is closing.  It may also fail, but only at work on an   *)
(* unanswered request: then every connection is gone at once, and scripts  *)
(* may be left running.  Webserv implements this (KeepsPromise).           *)
(***************************************************************************)
CONSTANT Slots   \* the connections there may be at a time

VARIABLES
  connected,   \* those there are
  script,      \* of each: what became of its script
  answer,      \* of each: the answer it got
  behind,      \* whether a script was left running without its connection
  mode         \* of the server: open, asked to stop, closing, over

vars == <<connected, script, answer, behind, mode>>

Init ==
  /\ connected = {}
  /\ script = [s \in Slots |-> "none"]
  /\ answer = [s \in Slots |-> "none"]
  /\ behind = FALSE
  /\ mode = "open"

Accept(s) ==
  /\ mode = "open"
  /\ s \in Slots \ connected
  /\ connected' = connected \cup {s}
  /\ UNCHANGED <<script, answer, behind, mode>>

(* The request is being worked on.                                         *)
Working(s) ==
  /\ s \in connected
  /\ answer[s] = "none"
  /\ mode \in {"open", "asked"}

(* A script may be over when the server first looks at it.                 *)
Start(s) ==
  /\ Working(s)
  /\ script[s] = "none"
  /\ \E r \in {"running", "failed", "succeeded"} :
       script' = [script EXCEPT ![s] = r]
  /\ UNCHANGED <<connected, answer, behind, mode>>

End(s) ==
  /\ s \in connected
  /\ script[s] = "running"
  /\ \E r \in {"failed", "succeeded"} : script' = [script EXCEPT ![s] = r]
  /\ UNCHANGED <<connected, answer, behind, mode>>

(* An answer is the server's own, the script's, or lost for want of memory.*)
Answer(s) ==
  /\ Working(s)
  /\ script[s] # "running"
  /\ \E a \in {"own", "script", "lost"} :
       /\ a = "script" => script[s] = "succeeded"
       /\ answer' = [answer EXCEPT ![s] = a]
  /\ UNCHANGED <<connected, script, behind, mode>>

(* Answered or not.  A script that still runs is stopped by then.          *)
Leave(s) ==
  /\ s \in connected
  /\ connected' = connected \ {s}
  /\ script' = [script EXCEPT ![s] = "none"]
  /\ answer' = [answer EXCEPT ![s] = "none"]
  /\ UNCHANGED <<behind, mode>>

Ask ==
  /\ mode = "open"
  /\ mode' = "asked"
  /\ UNCHANGED <<connected, script, answer, behind>>

Close ==
  /\ mode = "asked"
  /\ mode' = "closing"
  /\ UNCHANGED <<connected, script, answer, behind>>

Stop ==
  /\ mode \in {"asked", "closing"}
  /\ connected = {}
  /\ mode' = "over"
  /\ UNCHANGED <<connected, script, answer, behind>>

(* An exception that nobody catches.                                       *)
Fail(s) ==
  /\ Working(s)
  /\ connected' = {}
  /\ script' = [r \in Slots |-> "none"]
  /\ answer' = [r \in Slots |-> "none"]
  /\ behind' \in {behind, \E r \in connected : script[r] = "running"}
  /\ mode' = "over"

Next ==
  \/ \E s \in Slots : Accept(s) \/ Start(s) \/ End(s) \/ Answer(s) \/ Leave(s)
                    \/ Fail(s)
  \/ Ask \/ Close \/ Stop

Spec == Init /\ [][Next]_vars
=============================================================================
