---------------------------- MODULE PIDRegistry ----------------------------
(***************************************************************************)
(* What quickpid promises about identifiers, without saying how: a request *)
(* asks for a number of PIDs in a namespace and is either refused, leaving *)
(* no trace, or handed that many different PIDs that nobody was handed     *)
(* before.  A PID that was issued stays issued.                            *)
(***************************************************************************)
EXTENDS Naturals

CONSTANTS
    NamespaceIDs, PIDs, Requests,
    Jobs,  \* what a request may ask for: records with fields ns and size
    None

VARIABLES
    issued,  \* issued[n]: the PIDs in use in namespace n
    asked,   \* asked[r]: the job of request r, or None
    answer,  \* answer[r]: "pending", "refused" or "issued"
    handed   \* handed[r]: the PIDs request r was handed, in order

registryVars == <<issued, asked, answer, handed>>

Init ==
    /\ issued = [n \in NamespaceIDs |-> {}]
    /\ asked = [r \in Requests |-> None]
    /\ answer = [r \in Requests |-> "pending"]
    /\ handed = [r \in Requests |-> <<>>]

Ask(r, j) ==
    /\ asked[r] = None
    /\ asked' = [asked EXCEPT ![r] = j]
    /\ UNCHANGED <<issued, answer, handed>>

\* pids lists asked[r].size different PIDs, none of them in use.
Issue(r, pids) ==
    /\ asked[r] # None
    /\ answer[r] = "pending"
    /\ pids \in [1..asked[r].size -> PIDs]
    /\ \A i, j \in DOMAIN pids : pids[i] = pids[j] => i = j
    /\ \A i \in DOMAIN pids : pids[i] \notin issued[asked[r].ns]
    /\ issued' = [issued EXCEPT ![asked[r].ns] =
                     @ \cup {pids[i] : i \in DOMAIN pids}]
    /\ answer' = [answer EXCEPT ![r] = "issued"]
    /\ handed' = [handed EXCEPT ![r] = pids]
    /\ UNCHANGED asked

Refuse(r) ==
    /\ asked[r] # None
    /\ answer[r] = "pending"
    /\ answer' = [answer EXCEPT ![r] = "refused"]
    /\ UNCHANGED <<issued, asked, handed>>

Next ==
    \E r \in Requests :
        \/ \E j \in Jobs : Ask(r, j)
        \/ \E pids \in UNION {[1..j.size -> PIDs] : j \in Jobs} : Issue(r, pids)
        \/ Refuse(r)

Spec == Init /\ [][Next]_registryVars

=============================================================================
