----------------------------- MODULE MCProcess -----------------------------
(* Two places on one database: the life of a process in detail, and the    *)
(* accounts that several leave behind.                                     *)
EXTENDS Process

Config(anonymous, noCreateRoot, quiet, name, background) ==
    [anonymous |-> anonymous, noCreateRoot |-> noCreateRoot, quiet |-> quiet,
     createSuperUser |-> name, background |-> background]

CONSTANT Admin

\* A server, with a background process, or one that logs no key; then a second
\* one, which may be anonymous, or somebody who wants a superuser; then
\* somebody who wants one, or wants it again.
StartConfigs ==
    << {Config(FALSE, FALSE, FALSE, None, TRUE)}
           \cup {Config(FALSE, FALSE, q, None, FALSE) : q \in BOOLEAN},
       {Config(FALSE, FALSE, FALSE, n, FALSE) : n \in {Admin, None}}
           \cup {Config(TRUE, TRUE, FALSE, None, FALSE), Config(TRUE, FALSE, FALSE, Root, FALSE)},
       {Config(FALSE, FALSE, FALSE, Admin, FALSE)} >>

\* s serves, and dies only if killed.
Plain(s) ==
    /\ ~proc[s].signalled /\ ~proc[s].left /\ ~proc[s].background
    /\ proc[s].listener \in {"none", "starting", "open"}

\* There is one process, at most a root and nothing happens to it.
Settled ==
    /\ \A n \in Names \ {Root} : ~Exists(n)
    /\ \A s \in Servers, r \in Requests : proc[s].changes[r] = None
    /\ \A s, q \in Servers : s = q \/ proc[s].pc = "off" \/ proc[q].pc = "off"

\* Bound: either accounts change and processes race, or one is shut down.
OneThingAtATime == Settled \/ \A s \in Servers : Plain(s)

=============================================================================
