---------------------------- MODULE VersionStore ----------------------------
(***************************************************************************)
(* What a versioned workspace key promises, without saying how: a current  *)
(* content, a numbered history that only grows, and a set of contents      *)
(* whose bytes can still be produced.  Superseding the current content     *)
(* never costs its bytes; they go only when retention reclaims them or     *)
(* when something other than datapin overwrites the object, which the      *)
(* count of such writes tells from a datapin write.                        *)
(* internal/workspace/workspace.go:1-12 is the promise in prose.           *)
(***************************************************************************)
EXTENDS Naturals

CONSTANTS
    Contents,   \* the contents a key can have
    None        \* no content: the object is absent

VARIABLES
    current,    \* what the key holds now
    history,    \* {<<number, content>>}: every recorded version
    avail,      \* contents whose bytes can be produced
    outside     \* writes so far by something other than datapin

vars == <<current, history, avail, outside>>

Init ==
    /\ current = None
    /\ history = {}
    /\ avail = {}
    /\ outside = 0

(* A content becomes current; what it replaces stays available. *)
Supersede(m) ==
    /\ current' = m
    /\ avail' = avail \union {m}
    /\ UNCHANGED <<history, outside>>

(* The current content enters history under a number above every other. *)
Record ==
    /\ current # None
    /\ \E v \in history' :
          /\ history' = history \union {v}
          /\ v[2] = current
          /\ v[1] \in Nat \ {0} /\ \A w \in history : w[1] < v[1]
    /\ UNCHANGED <<current, avail, outside>>

(* Retention gives up one content, never the current one. *)
Reclaim(m) ==
    /\ m # current
    /\ avail' = avail \ {m}
    /\ UNCHANGED <<current, history, outside>>

(* Something else replaces or deletes the object; the bytes it held may go *)
(* with it.                                                                *)
Overwrite(m) ==
    /\ current' = m
    /\ avail' \in { (avail \union ({m} \ {None})) \ lost : lost \in SUBSET ({current} \ {m}) }
    /\ outside' = outside + 1
    /\ UNCHANGED history

Next ==
    \/ \E m \in Contents : Supersede(m) \/ Reclaim(m)
    \/ Record
    \/ \E m \in Contents \union {None} : Overwrite(m)

Spec == Init /\ [][Next]_vars
=============================================================================
