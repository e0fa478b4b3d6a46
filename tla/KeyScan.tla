------------------------------ MODULE KeyScan ------------------------------
(***************************************************************************)
(* What a listing in pages promises, whatever it lists and whatever        *)
(* happens to it meanwhile: every page goes on strictly above the key      *)
(* where the last one ended, and is the last or takes a key, so that it    *)
(* comes to an end.  A listing that is over may be forgotten.              *)
(***************************************************************************)
EXTENDS Naturals, SequencesExt

CONSTANT Keys  \* pairs <<order_index, slug>>, compared lexicographically

VARIABLES
  listed,  \* the keys of the pages so far
  open     \* there is more to ask for

Less(k, l) == k[1] < l[1] \/ (k[1] = l[1] /\ k[2] < l[2])

Ascending(keys) == \A i, j \in DOMAIN keys : i < j => Less(keys[i], keys[j])

Init == listed = << >> /\ open = FALSE

Begin == ~open /\ listed' = << >> /\ open' \in BOOLEAN

Page ==
  /\ open
  /\ listed' \in Seq(Keys) /\ IsPrefix(listed, listed') /\ Ascending(listed')
  /\ open' \in BOOLEAN
  /\ open' => listed' # listed

Next == Begin \/ Page

Spec == Init /\ [][Next]_<<listed, open>>
=============================================================================
