------------------------------ MODULE EventLog ------------------------------
(***************************************************************************)
(* What the event bus promises its users.  Events are numbered in the      *)
(* order in which the bus accepts them.  A subscriber is a cursor into     *)
(* that log: it sees every event after the one at which it was created,    *)
(* once and in order, for as long as it is open.  A clone starts at the    *)
(* position of the subscriber it was cloned from.                          *)
(***************************************************************************)
EXTENDS Naturals

CONSTANT Subscribers

VARIABLES
    published,   \* number of events accepted so far
    open,        \* the subscribers that exist and are not closing
    last         \* subscriber -> the last event it was given, or passed over

LogInit == published = 0 /\ open = {} /\ last = [s \in Subscribers |-> 0]

LogPublish == published' = published + 1 /\ UNCHANGED <<open, last>>

LogSubscribe(s) ==
    /\ s \notin open
    /\ open' = open \cup {s}
    /\ last' = [last EXCEPT ![s] = published]
    /\ UNCHANGED published

LogClone(s, t) ==
    /\ s \in open /\ t \notin open
    /\ open' = open \cup {t}
    /\ last' = [last EXCEPT ![t] = last[s]]
    /\ UNCHANGED published

LogDeliver(s) ==
    /\ s \in open
    /\ last[s] < published
    /\ last' = [last EXCEPT ![s] = last[s] + 1]
    /\ UNCHANGED <<published, open>>

LogClose(s) == s \in open /\ open' = open \ {s} /\ UNCHANGED <<published, last>>

LogNext ==
    \/ LogPublish
    \/ \E s \in Subscribers : LogSubscribe(s) \/ LogDeliver(s) \/ LogClose(s)
    \/ \E s, t \in Subscribers : LogClone(s, t)

LogSpec == LogInit /\ [][LogNext]_<<published, open, last>>

=============================================================================
