----------------------------- MODULE FileStore -----------------------------
(***************************************************************************)
(* What VenomFS promises to those who read files: between two boots a name *)
(* has no file or one whole file, and a file is never changed in place.    *)
(* Replacing a file is a Drop followed by a Put; a removal that does not   *)
(* succeed brings back the file it dropped, exactly as it was.             *)
(***************************************************************************)
CONSTANTS Names,     \* file names
          Whole,     \* the contents a caller of write may ask for
          Readable,  \* anything a read may return: a boot finds what is there
          ABSENT     \* no such file

VARIABLES up,        \* the file system is mounted
          store,     \* what reading each name returns
          dropped    \* the file a removal under way may still bring back

Empty == [n \in Names |-> ABSENT]
Init == up = FALSE /\ store = Empty /\ dropped = ABSENT

(* A boot: from here on the files are the ones found on the disk. *)
Mount ==
  /\ ~up /\ up' = TRUE
  /\ store' \in [Names -> Readable \cup {ABSENT}]
  /\ dropped' = ABSENT

(* Power goes, or the mount is no longer one whose answers mean anything. *)
Down == up' = FALSE /\ store' = Empty /\ dropped' = ABSENT

(* A whole file appears under a name that had none. *)
Put(n) ==
  /\ up /\ store[n] = ABSENT
  /\ store'[n] \in Whole /\ store' = [store EXCEPT ![n] = store'[n]]
  /\ UNCHANGED <<up, dropped>>

(* A file disappears, for good or until the removal is known to have worked. *)
Drop(n) ==
  /\ up /\ store[n] # ABSENT
  /\ store'[n] = ABSENT /\ store' = [store EXCEPT ![n] = ABSENT]
  /\ dropped' \in {ABSENT, <<n, store[n]>>}
  /\ UNCHANGED up

(* The removal under way ends: the file is gone, or back. *)
Settle ==
  /\ up /\ dropped # ABSENT /\ dropped' = ABSENT
  /\ store' \in {store, [store EXCEPT ![dropped[1]] = dropped[2]]}
  /\ UNCHANGED up

Next == Down \/ Mount \/ Settle \/ \E n \in Names : Put(n) \/ Drop(n)

Spec == Init /\ [][Next]_<<up, store, dropped>>
=============================================================================
