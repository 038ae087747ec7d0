---------------------------- MODULE ContentStore ----------------------------
(***************************************************************************)
(* What the attachment service of the distribution server promises: a      *)
(* content is served from when it is complete until the administrator      *)
(* withdraws it, and a field is linked only to what is served.             *)
(***************************************************************************)
EXTENDS Naturals

CONSTANTS Contents, Fields

VARIABLES
  served,   \* contents a client can download
  linked,   \* <<field, content>>: links to contents that are served
  orders    \* operations of the administrator so far

Init ==
  /\ served \in SUBSET Contents
  /\ linked \in SUBSET (Fields \X served)
  /\ orders = 0

\* The content becomes available, and with it the links that waited for it.
Put(c) ==
  /\ served' = served \cup {c}
  /\ \E waiting \in SUBSET (Fields \X {c}) : linked' = linked \cup waiting
  /\ UNCHANGED orders

Link(f, c) ==
  /\ c \in served
  /\ linked' = linked \cup {<<f, c>>}
  /\ UNCHANGED <<served, orders>>

Unlink(links) ==
  /\ linked' = linked \ links
  /\ orders' = orders + 1
  /\ UNCHANGED served

Withdraw(c) ==
  /\ served' = served \ {c}
  /\ linked' = linked \ (Fields \X {c})
  /\ orders' = orders + 1

Next ==
  \/ \E c \in Contents : Put(c)
  \/ \E f \in Fields, c \in Contents : Link(f, c)
  \/ \E links \in SUBSET (Fields \X Contents) : Unlink(links)
  \/ \E c \in Contents : Withdraw(c)

Spec == Init /\ [][Next]_<<served, linked, orders>>
=============================================================================
