----------------------------- MODULE ObjectStore -----------------------------
(***************************************************************************)
(* What internal/workspace asks of a driver (workspace.go:37-51): a flat   *)
(* map from names to whole objects.  A write takes effect once, between    *)
(* its start and its answer, or not at all; an object is never seen half   *)
(* written, and it disappears only when something removes it, which turns  *)
(* `removed` over and so tells a removal from a write.                     *)
(***************************************************************************)
CONSTANTS
    Names,      \* the names of objects
    Contents,   \* whole contents
    None,       \* no object
    Writers     \* those who call the store

VARIABLES
    objects,    \* what a reader finds under each name
    asked,      \* what each writer is writing: a <<name, content>> or None
    removed     \* turns over with every removal

vars == <<objects, asked, removed>>

Init ==
    /\ objects \in [Names -> Contents \union {None}]
    /\ asked = [w \in Writers |-> None]
    /\ removed = FALSE

Ask(w) ==
    /\ asked[w] = None
    /\ \E n \in Names, m \in Contents : asked' = [asked EXCEPT ![w] = <<n, m>>]
    /\ UNCHANGED <<objects, removed>>

TakeEffect(w) ==
    /\ asked[w] # None
    /\ objects' = [objects EXCEPT ![asked[w][1]] = asked[w][2]]
    /\ asked' = [asked EXCEPT ![w] = None]
    /\ UNCHANGED removed

GiveUp(w) ==
    /\ asked[w] # None
    /\ asked' = [asked EXCEPT ![w] = None]
    /\ UNCHANGED <<objects, removed>>

Remove(n) ==
    /\ objects' = [objects EXCEPT ![n] = None]
    /\ removed' = ~removed
    /\ UNCHANGED asked

Next ==
    \/ \E w \in Writers : Ask(w) \/ TakeEffect(w) \/ GiveUp(w)
    \/ \E n \in Names : Remove(n)

Spec == Init /\ [][Next]_vars
=============================================================================
