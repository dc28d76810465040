----------------------------- MODULE AtLeastOnce -----------------------------
(***************************************************************************)
(* What a consumer of a numbered feed promises when it remembers, apart    *)
(* from the work itself, how far it has come: items are handled at least   *)
(* once, and the place it would resume from never lies beyond an item that *)
(* was not handled.  Items that came before it knew any place to resume    *)
(* from may be passed over.                                                *)
(***************************************************************************)
EXTENDS Integers

VARIABLES
    published,      \* items 1..published are on the feed
    handled,        \* items handled, once or more often
    skipped,        \* items passed over
    saved           \* the last item not to be asked for again; 0 at first

vars == <<published, handled, skipped, saved>>

Init == published = 0 /\ handled = {} /\ skipped = {} /\ saved = 0

Publish ==
    /\ published' = published + 1
    /\ UNCHANGED <<handled, skipped, saved>>

Handle ==
    /\ \E n \in 1..published : handled' = handled \cup {n}
    /\ UNCHANGED <<published, skipped, saved>>

(* The consumer joins the feed at its end. *)
Join ==
    /\ skipped' = skipped \cup (1..published)
    /\ UNCHANGED <<published, handled, saved>>

Save ==
    /\ \E n \in 0..published : saved' = n /\ 1..n \subseteq handled \cup skipped
    /\ UNCHANGED <<published, handled, skipped>>

Next == Publish \/ Handle \/ Join \/ Save

Spec == Init /\ [][Next]_vars
=============================================================================
