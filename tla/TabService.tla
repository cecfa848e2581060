----------------------------- MODULE TabService -----------------------------
(***************************************************************************)
(* What the commands remote-daemon-probe, -tabs and -create promise        *)
(* (cli.rs, remote_client.rs): one call is made at a time and ends with an *)
(* answer or an error; a list is one the server had during the call; a     *)
(* created tab is one the server had then; and a call makes one tab at     *)
(* most.  Others make and close tabs meanwhile.                            *)
(***************************************************************************)
EXTENDS Naturals, Sequences, SequencesExt

VARIABLES
    tabs,   \* the ids of the server's tabs, in order
    call,   \* what the caller waits for, or what it got
    seen,   \* the lists the server has had during the call
    made    \* tabs made for the call

vars == <<tabs, call, seen, made>>

Jobs == {"probe", "list", "create"}

Calling == call.name \in Jobs

Begin ==
    /\ ~Calling
    /\ \E job \in Jobs : call' = [name |-> job, answer |-> <<>>]
    /\ seen' = {tabs} /\ made' = 0
    /\ UNCHANGED tabs

OneMore == tabs' # <<>> /\ tabs = Front(tabs') /\ Last(tabs') \notin ToSet(tabs)

OneLess == \E i \in DOMAIN tabs : tabs' = RemoveAt(tabs, i)

\* By someone else, during a call or between two.
Change ==
    /\ OneMore \/ OneLess
    /\ seen' = IF Calling THEN seen \cup {tabs'} ELSE seen
    /\ UNCHANGED <<call, made>>

Create ==
    /\ OneMore
    /\ made = 0 /\ made' = 1
    /\ seen' = IF Calling THEN seen \cup {tabs'} ELSE seen
    /\ UNCHANGED call

Return ==
    /\ Calling
    /\ \/ /\ call.name = "list"
          /\ \E list \in seen : call' = [name |-> "listed", answer |-> list]
       \/ /\ call.name = "create"
          /\ \E list \in seen : \E id \in ToSet(list) :
                call' = [name |-> "created", answer |-> <<id>>]
       \/ /\ call.name = "probe"
          /\ call' = [name |-> "probed", answer |-> <<>>]
       \/ call' = [name |-> "failed", answer |-> <<>>]
    /\ UNCHANGED <<tabs, seen, made>>

Init ==
    /\ tabs \in Seq(Nat)
    /\ call = [name |-> "none", answer |-> <<>>]
    /\ seen = {tabs} /\ made = 0

Next == Begin \/ Change \/ Create \/ Return

Spec == Init /\ [][Next]_vars
=============================================================================
