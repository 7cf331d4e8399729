------------------------------ MODULE MCConsole ------------------------------
(* A console process: its history and approvals, or its configuration file *)
(* and event streams.  The two share no state: each behaviour is one of    *)
(* the part chosen at its start, the other stays in an initial state.      *)
EXTENDS Approvals, ConfigFile

VARIABLE part

partVars == <<part, vars, switchVars>>

-----------------------------------------------------------------------------
Blank == [id |-> 0, at |-> 0, event |-> "allow", session |-> None, phase |-> None,
          choice |-> None, prompt |-> None, smart |-> FALSE, rule |-> None, count |-> 0,
          sig |-> "good", provenance |-> None, safe |-> TRUE, findings |-> 0,
          kept |-> {}, text |-> 0, item |-> None,
          scan |-> [findings |-> <<>>, scanners |-> 0, text |-> 0]]

Answer == [Blank EXCEPT !.event = "approval", !.phase = "response", !.prompt = "p",
                        !.rule = "rule", !.session = "s"]

(* An automatic denial, the operator's answer after it, a forged answer    *)
(* stamped in between.                                                     *)
SmartDeny == [Answer EXCEPT !.id = 1, !.at = 1, !.choice = "smart_deny", !.smart = TRUE]
Human     == [Answer EXCEPT !.id = 2, !.at = 3, !.choice = "deny"]
Forged    == [Answer EXCEPT !.id = 3, !.at = 2, !.choice = "timeout", !.sig = "bad"]

Play == [Blank EXCEPT !.id = 6, !.at = 3,
           !.scan = [findings |-> <<[rank |-> 1, size |-> 2], [rank |-> 4, size |-> 3],
                                    [rank |-> 1, size |-> 1], [rank |-> 3, size |-> 2]>>,
                     scanners |-> 3, text |-> 4]]

Gateway == {SmartDeny, Human, Forged}
Played  == {Play}

-----------------------------------------------------------------------------
PartInit ==
  /\ part \in {"history", "switch"}
  /\ Init
  /\ ConfigFileInit
  /\ IF part = "switch" THEN TRUE ELSE active = "home"

PartNext ==
  /\ \/ part = "history" /\ Next
     \/ part # "history" /\ UNCHANGED vars
  /\ \/ part = "switch" /\ ConfigFileNext
     \/ part # "switch" /\ UNCHANGED switchVars
  /\ UNCHANGED part

PartSpec == PartInit /\ [][PartNext]_partVars
=============================================================================
