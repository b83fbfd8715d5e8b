----------------------------- MODULE Attribution -----------------------------
(***************************************************************************)
(* What a vault promises about authorship, with no cryptography, no        *)
(* formats and no files being written: memories stand on a shelf, each     *)
(* credited to someone who said it or to nobody.  The owner's own stay the *)
(* owner's own, and nothing else ever becomes the owner's.  VaultTrust     *)
(* implements it: a migration is at most one Reattribute.                  *)
(***************************************************************************)
CONSTANTS
  File,       \* places on the shelf
  Memory,     \* what can be said
  Author,     \* who can say it
  Own,        \* the author whose shelf it is
  Nobody,     \* credited to no author
  Nothing     \* an empty place

VARIABLES
  shelf,      \* what stands where, and who is credited with it
  said        \* <<author, memory>>: who said what

avars == <<shelf, said>>

Creditable(a, m, sayings) == a = Nobody \/ <<a, m>> \in sayings

AInit ==
  /\ shelf = [f \in File |-> Nothing]
  /\ said = {}

\* A memory is put in an empty place; its authors say it there and then, or
\* somebody else is known to have said it.
Put(f) ==
  \E m \in Memory, a \in Author \cup {Nobody} :
    /\ shelf[f] = Nothing
    /\ shelf' = [shelf EXCEPT ![f] = [memory |-> m, author |-> a]]
    /\ said \subseteq said'
    /\ said' \ said \subseteq Author \X {m}
    /\ Creditable(a, m, said')

\* The credit for a memory that is not the owner's own changes hands, never to
\* the owner and only to an author who said it.
Reattribute(f) ==
  \E a \in (Author \ {Own}) \cup {Nobody} :
    /\ shelf[f] # Nothing
    /\ shelf[f].author # Own
    /\ Creditable(a, shelf[f].memory, said)
    /\ shelf' = [shelf EXCEPT ![f].author = a]
    /\ UNCHANGED said

ANext == \E f \in File : Put(f) \/ Reattribute(f)

ASpec == AInit /\ [][ANext]_avars
=============================================================================
