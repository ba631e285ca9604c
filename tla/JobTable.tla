------------------------------ MODULE JobTable ------------------------------
(***************************************************************************)
(* What the backup pages promise: a table of remote accounts and one of    *)
(* backup jobs, each a target and its schedule, on which every click is a  *)
(* single step.  No step touches a job or an account that it does not name.*)
(***************************************************************************)
CONSTANTS Account, Device, Schedule

Target == Account \cup Device

VARIABLES accounts, entries

vars == <<accounts, entries>>

Init == accounts = {} /\ entries = {}

JobsOf(t) == {e \in entries : e[1] = t}

Create(e) == entries' = entries \cup {e} /\ UNCHANGED accounts

Remove(e) == entries' = entries \ {e} /\ UNCHANGED accounts

(* A job changes its schedule; it never takes the place of another job.    *)
Update(t, s, new) ==
  /\ <<t, new>> \notin entries
  /\ entries' = (entries \ {<<t, s>>}) \cup {<<t, new>>}
  /\ UNCHANGED accounts

AddAccount(a) ==
  /\ a \notin accounts
  /\ accounts' = accounts \cup {a}
  /\ UNCHANGED entries

(* An account goes with its jobs.                                          *)
RemoveAccount(a) ==
  /\ accounts' = accounts \ {a}
  /\ entries' = entries \ JobsOf(a)

(* An account that is edited keeps its jobs under its new name.  What had  *)
(* that name before is gone.                                               *)
EditAccount(a, new) ==
  /\ a \in accounts
  /\ accounts' = (accounts \ {a}) \cup {new}
  /\ entries' = (entries \ (JobsOf(a) \cup JobsOf(new)))
                  \cup {<<new, e[2]>> : e \in JobsOf(a)}

Next ==
  \/ \E t \in Target, s \in Schedule :
       \/ Create(<<t, s>>) \/ Remove(<<t, s>>)
       \/ \E new \in Schedule : Update(t, s, new)
  \/ \E a \in Account :
       \/ AddAccount(a) \/ RemoveAccount(a)
       \/ \E new \in Account : EditAccount(a, new)

Spec == Init /\ [][Next]_vars
=============================================================================
