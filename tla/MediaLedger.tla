----------------------------- MODULE MediaLedger -----------------------------
(***************************************************************************)
(* What the pipeline owes the owner of the files, without watchers, runs,  *)
(* attempts, scans or faults: a file that arrived is deleted, or marked if *)
(* it is to be preserved, once its item is settled; an output is made of a *)
(* media file and goes only into the library or after the item was         *)
(* settled; and nothing is ever undone.  Settled is what the library did;  *)
(* where the arr client takes an answer that says nothing, or a name that  *)
(* nobody knows, for the end of the matter, the item is only presumed to   *)
(* be settled, and that is an entry of its own.                            *)
(***************************************************************************)
CONSTANTS Files, Outputs, OutputOf, Junk, Preserve

VARIABLES
  arrived,  \* files that came into the watch
  offered,  \* outputs that wait in the output directory
  settled,  \* outputs whose item the library took, or will not take
  presumed, \* outputs whose item the client takes for settled, unknowing
  deleted,  \* files that are gone
  marked    \* files marked as processed

retired == <<deleted, marked>>
vars == <<arrived, offered, settled, presumed, retired>>

Init ==
  /\ arrived = {}
  /\ offered = {}
  /\ settled = {}
  /\ presumed = {}
  /\ deleted = {}
  /\ marked = {}

Arrive(f) ==
  /\ f \notin arrived
  /\ arrived' = arrived \cup {f}
  /\ UNCHANGED <<offered, settled, presumed, retired>>

Offer(o) ==
  /\ \E f \in arrived \ Junk : OutputOf[f] = o
  /\ offered' = offered \cup {o}
  /\ UNCHANGED <<arrived, settled, presumed, retired>>

\* The library moves the output away.
Take(o) ==
  /\ o \in offered \ settled
  /\ offered' = offered \ {o}
  /\ settled' = settled \cup {o}
  /\ UNCHANGED <<arrived, presumed, retired>>

\* The library copies the output, or will not have it.
Settle(o) ==
  /\ o \notin settled
  /\ settled' = settled \cup {o}
  /\ UNCHANGED <<arrived, offered, presumed, retired>>

\* The client gives the item up as settled without being told so.
Presume(o) ==
  /\ o \notin presumed
  /\ presumed' = presumed \cup {o}
  /\ UNCHANGED <<arrived, offered, settled, retired>>

Discard(o) ==
  /\ o \in offered \cap (settled \cup presumed)
  /\ offered' = offered \ {o}
  /\ UNCHANGED <<arrived, settled, presumed, retired>>

Expendable(f) == f \in Junk \/ OutputOf[f] \in settled \cup presumed

Delete(f) ==
  /\ f \in arrived \ (deleted \cup Preserve)
  /\ Expendable(f)
  /\ deleted' = deleted \cup {f}
  /\ UNCHANGED <<arrived, offered, settled, presumed, marked>>

Mark(f) ==
  /\ f \in (arrived \cap Preserve) \ marked
  /\ Expendable(f)
  /\ marked' = marked \cup {f}
  /\ UNCHANGED <<arrived, offered, settled, presumed, deleted>>

Next ==
  \/ \E f \in Files : Arrive(f) \/ Delete(f) \/ Mark(f)
  \/ \E o \in Outputs :
       Offer(o) \/ Take(o) \/ Settle(o) \/ Presume(o) \/ Discard(o)

Spec == Init /\ [][Next]_vars
=============================================================================
