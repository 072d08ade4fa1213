--------------------------- MODULE AbstractQueue ---------------------------
(***************************************************************************)
(* What pitcher/queue.h promises its callers, without the list nodes and   *)
(* the pool of idle nodes behind it: a FIFO of items, and a pass over it    *)
(* (pitcher_queue_enumerate) that offers the items in order, each exactly   *)
(* once, while the callback may append.  An item appended while the pass    *)
(* stands on the last element is not part of the pass any more.             *)
(***************************************************************************)
EXTENDS Naturals, SequencesExt

CONSTANT Item

VARIABLES contents,  \* the items, oldest first
          pass,      \* position of the pass, 0 when there is none
          isLast,    \* the pass met the end of the queue when it arrived here
          out,       \* the item handed out last
          open       \* between pitcher_init_queue and pitcher_destroy_queue

vars == <<contents, pass, isLast, out, open>>

Init == /\ contents = <<>>
        /\ pass = 0
        /\ isLast = FALSE
        /\ out \in Item
        /\ open = TRUE

Push(i) == /\ open
           /\ contents' = Append(contents, i)
           /\ UNCHANGED <<pass, isLast, out, open>>

Pop == /\ open /\ pass = 0 /\ contents # <<>>
       /\ out' = Head(contents)
       /\ contents' = Tail(contents)
       /\ UNCHANGED <<pass, isLast, open>>

Arrive(k, c) == IF k \in DOMAIN c
                THEN /\ pass' = k
                     /\ isLast' = (k = Len(c))
                     /\ out' = c[k]
                ELSE pass' = 0 /\ isLast' = FALSE /\ UNCHANGED out

BeginPass == /\ open /\ pass = 0 /\ contents # <<>>
             /\ Arrive(1, contents)
             /\ UNCHANGED <<contents, open>>

(* The callback returns; a non-zero return removes the item. *)
StepPass(rm) == /\ pass # 0
                /\ contents' = IF rm THEN RemoveAt(contents, pass) ELSE contents
                /\ LET next == IF rm THEN pass ELSE pass + 1
                   IN  Arrive(IF isLast THEN 0 ELSE next, contents')
                /\ UNCHANGED open

Find(i, rm) == /\ open /\ pass = 0
               /\ \E k \in DOMAIN contents :
                     /\ contents[k] = i
                     /\ \A j \in 1 .. k - 1 : contents[j] # i
                     /\ contents' = IF rm THEN RemoveAt(contents, k) ELSE contents
               /\ out' = i
               /\ UNCHANGED <<pass, isLast, open>>

Destroy == /\ open /\ pass = 0
           /\ contents' = <<>>
           /\ open' = FALSE
           /\ UNCHANGED <<pass, isLast, out>>

Next == \/ \E i \in Item : Push(i)
        \/ Pop
        \/ BeginPass
        \/ \E rm \in BOOLEAN : StepPass(rm)
        \/ \E i \in Item, rm \in BOOLEAN : Find(i, rm)
        \/ Destroy

Spec == Init /\ [][Next]_vars
=============================================================================
