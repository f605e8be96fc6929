------------------------------- MODULE RunLedger -------------------------------
(***************************************************************************)
(* What the report pipeline promises to whoever asks for a report: a       *)
(* report that was asked for is pending until it gets an answer, an answer *)
(* and its entry in the report's ledger of tries appear together, and only *)
(* a new request takes an answer back.                                     *)
(***************************************************************************)
EXTENDS Sequences

CONSTANTS
  Reports,   \* report identities
  Outcomes   \* the answers a run can give, "unknown" and "pending" not among them

VARIABLES
  standing,  \* "unknown" before the first request, "pending", or the answer
  ledger     \* the answers given since the ledger was last cleared

vars == <<standing, ledger>>

Init ==
  /\ standing = [r \in Reports |-> "unknown"]
  /\ ledger = [r \in Reports |-> <<>>]

\* A first request, or one more run on top of the recorded ones.
Ask(r) ==
  /\ standing' = [standing EXCEPT ![r] = "pending"]
  /\ UNCHANGED ledger

\* A request that also forgets the recorded runs.
AskAfresh(r) ==
  /\ standing[r] # "unknown"
  /\ standing' = [standing EXCEPT ![r] = "pending"]
  /\ ledger' = [ledger EXCEPT ![r] = <<>>]

\* A run ends. It may be one that started before the last request.
Answer(r, o) ==
  /\ standing[r] # "unknown"
  /\ standing' = [standing EXCEPT ![r] = o]
  /\ ledger' = [ledger EXCEPT ![r] = Append(@, o)]

Next ==
  \E r \in Reports :
    \/ Ask(r)
    \/ AskAfresh(r)
    \/ \E o \in Outcomes : Answer(r, o)

Spec == Init /\ [][Next]_vars

\* A pending report is owed an answer.
Owed(r) == standing[r] = "pending" /\ \E o \in Outcomes : Answer(r, o)

FairSpec == Spec /\ \A r \in Reports : WF_vars(Owed(r))

===============================================================================
