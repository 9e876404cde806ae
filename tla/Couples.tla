------------------------------- MODULE Couples -------------------------------
(***************************************************************************)
(* What the two halves of connectWithPartner, its lookups and its retries  *)
(* amount to on the server: a registry of codes in which a document is     *)
(* written only to register its owner or to link it, one document at a     *)
(* time, to a partner of whom one of the two asked for the other before.   *)
(*                                                                         *)
(* A code is never changed and a link is never undone, except that         *)
(* registering anew, when the first registration was not acknowledged,     *)
(* clears it: POMPOM has no operation that separates a couple.  That a     *)
(* link is mutual in the end is not promised here: the two halves are      *)
(* independent writes, and one of them may be refused.                     *)
(***************************************************************************)

CONSTANTS
  Doc,  \* the documents of the collection "users"
  Code  \* the codes

VARIABLES
  codes,   \* the "code" of each document, "nil" before it exists
  partner, \* the "partner_code" of each document, "" while there is none
  asked    \* the pairs <<a, b>> such that the owner of a has typed b

registry == <<codes, partner, asked>>

Init ==
  /\ codes = [x \in Doc |-> "nil"]
  /\ partner = [x \in Doc |-> ""]
  /\ asked = {}

Register(x, c) ==
  /\ codes[x] \in {"nil", c}
  /\ codes' = [codes EXCEPT ![x] = c]
  /\ partner' = [partner EXCEPT ![x] = ""]
  /\ UNCHANGED asked

(* Nobody can ask for itself. *)
Ask(a, b) ==
  /\ a # b
  /\ asked' = asked \cup {<<a, b>>}
  /\ UNCHANGED <<codes, partner>>

Link(x, b) ==
  /\ codes[x] # "nil"
  /\ {<<codes[x], b>>, <<b, codes[x]>>} \cap asked # {}
  /\ partner' = [partner EXCEPT ![x] = b]
  /\ UNCHANGED <<codes, asked>>

Next ==
  \/ \E x \in Doc, c \in Code : Register(x, c) \/ Link(x, c)
  \/ \E a, b \in Code : Ask(a, b)

Spec == Init /\ [][Next]_registry
=============================================================================
