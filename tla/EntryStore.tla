----------------------------- MODULE EntryStore -----------------------------
(***************************************************************************)
(* What a store whose entries outlive the process promises to its user.    *)
(* An entry that is added can be found at once and is sent to the disk,    *)
(* where it arrives later or never.  It may be forgotten on either side    *)
(* independently of the other: its time is up, or the process ends.  What  *)
(* a starting process finds was on the disk when it was read, one entry    *)
(* after the other; so an entry that is gone on both sides and on no way   *)
(* to the disk does not come back by itself.                               *)
(*                                                                         *)
(* VectorStore implements it, and Service is built on its actions.         *)
(***************************************************************************)

CONSTANT Entries

VARIABLES
  index,         \* entries a search may find, or a load has read
  sending,       \* entries on their way to the disk
  disk           \* entries on the disk

sides == <<index, sending, disk>>

Init == index = {} /\ sending = {} /\ disk = {}

Add(e) ==
  /\ index' = index \cup {e}
  /\ sending' = sending \cup {e}
  /\ UNCHANGED disk

Arrive(e) ==
  /\ e \in sending
  /\ sending' = sending \ {e}
  /\ disk' = disk \cup {e}
  /\ UNCHANGED index

Lose(e) ==
  /\ e \in sending
  /\ sending' = sending \ {e}
  /\ UNCHANGED <<index, disk>>

(* A starting process reads an entry. *)
Read(e) ==
  /\ e \in disk
  /\ index' = index \cup {e}
  /\ UNCHANGED <<sending, disk>>

(* Entries are forgotten, some by the process and some by the disk. *)
Forget(here, there) ==
  /\ index' = index \ here
  /\ disk' = disk \ there
  /\ UNCHANGED sending

Next ==
  \/ \E e \in Entries : Add(e) \/ Arrive(e) \/ Lose(e) \/ Read(e)
  \/ \E here, there \in SUBSET Entries : Forget(here, there)

Spec == Init /\ [][Next]_sides

=============================================================================
