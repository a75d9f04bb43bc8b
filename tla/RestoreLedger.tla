---------------------------- MODULE RestoreLedger ----------------------------
(***************************************************************************)
(* What the reset service promises, without saying how: every restore of a *)
(* team's database is entered in a ledger, a team has at most one open      *)
(* entry, only an open entry changes a database and only its own team's,    *)
(* and an entry is closed as succeeded only over a database that this very  *)
(* entry rebuilt completely.                                                *)
(***************************************************************************)
CONSTANTS Teams, NoTeam, \* the provisioned teams; the team of an unused entry
          Entries,      \* identities of ledger entries
          Provisioned,  \* the content a team's database was created with
          Broken        \* missing, or not yet completely rebuilt

VARIABLES ledger,  \* ledger[e]: the entry's team and state
          content  \* content[t]: whose work team t's database is

vars == <<ledger, content>>

Blank == [team |-> NoTeam, state |-> "none"]
OpenEntries(t) == {e \in Entries : ledger[e] = [team |-> t, state |-> "running"]}

Init == /\ ledger = [e \in Entries |-> Blank]
        /\ content = [t \in Teams |-> Provisioned]

Open(e, t) == /\ ledger[e].state = "none"
              /\ OpenEntries(t) = {}
              /\ ledger' = [ledger EXCEPT ![e] = [team |-> t, state |-> "running"]]
              /\ UNCHANGED content

Rebuild(e, t) == /\ e \in OpenEntries(t)
                 /\ \E new \in {Broken, e} : content' = [content EXCEPT ![t] = new]
                 /\ UNCHANGED ledger

Succeed(e, t) == /\ e \in OpenEntries(t)
                 /\ content[t] = e
                 /\ ledger' = [ledger EXCEPT ![e].state = "succeeded"]
                 /\ UNCHANGED content

\* An open entry may be closed as failed at any point. A succeeded one may be
\* rewritten as failed when the service never learned of its own success.
Fail(e, t) == /\ ledger[e].team = t
              /\ ledger[e].state \in {"running", "succeeded"}
              /\ ledger' = [ledger EXCEPT ![e].state = "failed"]
              /\ UNCHANGED content

Next == \E e \in Entries, t \in Teams :
           Open(e, t) \/ Rebuild(e, t) \/ Succeed(e, t) \/ Fail(e, t)

Spec == Init /\ [][Next]_vars
==============================================================================
