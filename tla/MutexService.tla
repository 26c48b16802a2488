---------------------------- MODULE MutexService ----------------------------
(***************************************************************************)
(* What a guest may rely on of a mutex semaphore: one owner at a time, who *)
(* may take it again; the others served in the order they asked; and the   *)
(* next owner told when an owner has ended without releasing it.           *)
(***************************************************************************)
EXTENDS Integers, Sequences

CONSTANTS Tids,   \* thread ids
          Limit   \* recursion limit

VARIABLES
    holder,   \* the owner's id, or 0
    depth,    \* how often it holds the mutex
    waiting,  \* the ids of those that wait, in the order they asked
    orphan    \* the last owner ended, and nobody was told yet

svcVars == <<holder, depth, waiting, orphan>>

Init == holder = 0 /\ depth = 0 /\ waiting = <<>> /\ orphan = FALSE

\* A mutex that nobody uses is made anew.
Create == /\ holder = 0 /\ waiting = <<>>
          /\ \/ holder' \in Tids /\ depth' = 1
             \/ holder' = 0 /\ depth' = 0
          /\ orphan' = FALSE /\ UNCHANGED waiting

Take(t) == /\ holder = 0
           /\ holder' = t /\ depth' = 1 /\ orphan' = FALSE /\ UNCHANGED waiting

TakeAgain == /\ holder # 0 /\ depth < Limit
             /\ depth' = depth + 1 /\ UNCHANGED <<holder, waiting, orphan>>

Ask(t) == /\ holder \notin {0, t}
          /\ \A k \in 1..Len(waiting) : waiting[k] # t
          /\ waiting' = Append(waiting, t) /\ UNCHANGED <<holder, depth, orphan>>

\* Somebody's timeout passes.
GiveUp(k) == /\ waiting' = SubSeq(waiting, 1, k - 1) \o SubSeq(waiting, k + 1, Len(waiting))
             /\ UNCHANGED <<holder, depth, orphan>>

PassOn(died) ==
    \/ /\ waiting = <<>>
       /\ holder' = 0 /\ depth' = 0 /\ orphan' = died /\ UNCHANGED waiting
    \/ /\ waiting # <<>>
       /\ holder' = Head(waiting) /\ depth' = 1 /\ waiting' = Tail(waiting)
       /\ orphan' = FALSE

Release == \/ depth > 1 /\ depth' = depth - 1 /\ UNCHANGED <<holder, waiting, orphan>>
           \/ depth = 1 /\ PassOn(FALSE)

OwnerEnds == holder # 0 /\ PassOn(TRUE)

Next == \/ Create \/ TakeAgain \/ Release \/ OwnerEnds
        \/ \E t \in Tids : Take(t) \/ Ask(t)
        \/ \E k \in 1..Len(waiting) : GiveUp(k)

Spec == Init /\ [][Next]_svcVars
=============================================================================
