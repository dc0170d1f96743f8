----------------------------- MODULE WaitQueue -----------------------------
(***************************************************************************)
(* A first-in first-out queue whose members are distinct, as a function: a *)
(* position in the queue is the set of those who are not behind it.  q[c]  *)
(* holds c and everybody ahead of c, and is empty when c is not queued.    *)
(* The prompter's GQueue of waiting callbacks is one: push_tail, pop_head  *)
(* and remove are all that happens to it, and only the order matters.      *)
(***************************************************************************)

EmptyQueue(S) == [c \in S |-> {}]

QueuedIn(q) == {c \in DOMAIN q : q[c] # {}}

\* g_queue_push_tail
PushTail(q, c) == [q EXCEPT ![c] = QueuedIn(q) \union {c}]

\* g_queue_remove, for each member of S; g_queue_pop_head when S is the head
Without(q, S) == [c \in DOMAIN q |-> IF c \in S THEN {} ELSE q[c] \ S]

\* The entry g_queue_pop_head returns
IsHead(q, c) == q[c] = {c}

\* The queue is a line: everybody is ordered with everybody else one way, and
\* whoever is ahead of a member is a member and ahead with all ahead of him.
IsLine(q) ==
    \A c \in QueuedIn(q) :
        /\ c \in q[c]
        /\ \A d \in q[c] : d \in QueuedIn(q) /\ q[d] \subseteq q[c]
        /\ \A d \in QueuedIn(q) : d # c => (d \in q[c] <=> c \notin q[d])
=============================================================================
